---- MODULE Spec2Model ----
(***************************************************************************)
(* Verification model of pyotter:                                          *)
(*   - the ideal scheduler / critical-path simulator                       *)
(*     (otter/simulator/ideal_simulator.py, TaskScheduler), with the       *)
(*     recursion of descend/branch_task unfolded into an explicit stack    *)
(*     of frames;                                                          *)
(*   - the lifecycle extraction driver (otter/core/event_model).           *)
(***************************************************************************)
EXTENDS Integers, Sequences, FiniteSets, TLC

VARIABLES
    \* the stored (native) trace read through ReadConnection
    task_relation,      \* child id -> parent id            (table task_relation)
    task_history,       \* task id -> <<[action, time]>>    (table task_history)
    task_suspend_meta,  \* task id -> {[time, sync_mode]}   (table task_suspend_meta)
    task_children,      \* task id -> recorded child count  (Task.children)
    \* TaskScheduler
    pc,                 \* "start" | "run" | "done" | "error"
    err,                \* the exception that aborted the run, "" if none
    root_task,          \* TaskScheduler._root_task
    global_ts,          \* run(): global_ts
    phase_tasks,        \* run(): the phases still to simulate
    stack,              \* active simulate_phase / branch_task invocations
    phase_log,          \* calls of simulate_phase: [phase, start, end]
    \* the three sinks of the simulator
    crit_log,           \* crit_task_callback(task, sequence, critical_child)
    action_log,         \* task_action_callback(task, action, time)
    suspend_log,        \* task_suspend_callback(task, time, sync_mode)
    \* the lifecycle extraction driver (BaseEventModel.generate_chunks)
    event_model,        \* "OMP" | "TASKGRAPH"
    events_iter,        \* generate_chunks(): the events taken from events_iter
    total_events,       \* generate_chunks(): total_events
    task_meta,          \* add_task_metadata_cbk(task, parent, label)
    task_actions,       \* add_task_action_cbk(task, action, time)
    suspend_meta,       \* add_task_suspend_meta_cbk(task, time, sync_descendants)
    calls,              \* the callback invocations, in the order they are made
    \* the traced program that produces the event stream
    traced,             \* task id -> "none" | "created" | "running" | "waiting"
                        \*            | "parked" | "done"
    current_task,       \* OMP: the task the thread is executing
    malformed,          \* the number of events no traced program emits so far
    num_chunks,         \* generate_chunks(): num_chunks
    retval,             \* generate_chunks(): the value returned, NotReturned before
    queries,            \* the answers of the event model when asked again about
                        \* the event at hand
    \* the persistence layer (otter/db): one context and the code it encloses
    context,            \* the context manager entered by the caller
    body,               \* the enclosed code: "running" | "finished" | "raised"
    caller,             \* what the with statement did: "inside" | "returned" | "raised"
    inserted,           \* the rows each writer was given, in the order of the insert calls
    closed,             \* the resources closed so far, in the order they were closed
    buffer,             \* table -> BufferedDBWriter._buffer
    committed,          \* table -> the rows committed to the store
    \* the finite-resource scheduler (otter/simulator/finite_simulator.py)
    ready_tasks,        \* TaskPool._ready_tasks
    waiting_tasks,      \* TaskPool._waiting_tasks: task -> outstanding dependencies
    running_tasks,      \* TaskPool._running_tasks (its keys)
    task_scheduling_points, \* TaskScheduler._task_scheduling_points
    pool_err,           \* the exception that left step() or the pool, "" if none
    created_tasks,      \* the tasks that entered the pool: initial or created
    scheduled_tasks,    \* the tasks a thread has taken with schedule_new_task
    pool_log            \* the SUSPEND and COMPLETE points step() handled, in order

\* generate_chunks has not returned
NotReturned == 0 - 1

simvars == <<task_relation, task_history, task_suspend_meta, task_children,
             pc, err, root_task, global_ts, phase_tasks, stack, phase_log,
             crit_log, action_log, suspend_log>>

drvvars == <<event_model, events_iter, total_events, task_meta, task_actions, suspend_meta, calls,
             traced, current_task, malformed, num_chunks, retval, queries>>

dbvars == <<context, body, caller, buffer, committed, inserted, closed>>

finvars == <<ready_tasks, waiting_tasks, running_tasks, task_scheduling_points,
             pool_err, created_tasks, scheduled_tasks, pool_log>>

vars == <<simvars, drvvars, dbvars, finvars>>

-----------------------------------------------------------------------------
(* Bounds of the model *)

MaxDur == 2
MaxBarriers == 2
ActiveLen == 3
NativeWait == 5
MaxDamagedBarriers == 1
MaxTiedBarriers == 0

-----------------------------------------------------------------------------
(* otter/definitions.py *)

CREATE == "CREATE"
START == "START"
END == "END"
SUSPEND == "SUSPEND"
RESUME == "RESUME"
TaskAction == {CREATE, START, END, SUSPEND, RESUME}

CHILDREN == "CHILDREN"
DESCENDANTS == "DESCENDANTS"
YIELD == "YIELD"
TaskSyncMode == {CHILDREN, DESCENDANTS, YIELD}

RootTask == 0
\* Python's None, a value that is no task id
None == (0 - 1) - 1
NullTaskID == 0 - 1     \* stands for 18446744073709551615
TaskIDs == 1..5

-----------------------------------------------------------------------------
(* Generic helpers *)

Max(a, b) == IF a >= b THEN a ELSE b

RECURSIVE SumSeq(_)
SumSeq(s) == IF s = <<>> THEN 0 ELSE Head(s) + SumSeq(Tail(s))

RECURSIVE SetToSeq(_)
\* the elements of a finite set of integers, ascending
SetToSeq(S) ==
    IF S = {} THEN <<>>
    ELSE LET m == CHOOSE x \in S : \A y \in S : x <= y
         IN <<m>> \o SetToSeq(S \ {m})

Range(s) == {s[i] : i \in 1..Len(s)}

Perms(S) == {p \in [1..Cardinality(S) -> S] : Range(p) = S}

-----------------------------------------------------------------------------
(* The stored traces the simulator is run on.  A trace is described by the   *)
(* task tree (par), the barriers each branch task hits (brs), the active     *)
(* interval of the parent in which each task was created (slot), the native  *)
(* duration of each leaf (dur) and the recorded child counts, and is laid    *)
(* out on the native time axis by the operators below.                       *)

Shapes ==
    { [t \in TaskIDs |-> CASE t = 1 -> 0 [] t = 2 -> 0 [] t = 3 -> 1
                           [] t = 4 -> p4 [] t = 5 -> p5]
      : p4 \in {1, 3}, p5 \in {3, 4} }

KidsIn(par, t) == {c \in TaskIDs : par[c] = t}

\* the barriers of the tasks, from the number of barriers of each task (cnt)
\* and the modes of all barriers of the trace in task order (modes)
BarriersOf(cnt, modes) ==
    [t \in TaskIDs |->
        LET before == SumSeq([u \in 1..(t - 1) |-> cnt[u]])
        IN SubSeq(modes, before + 1, before + cnt[t])]

BarrierCounts(par) ==
    {cnt \in [TaskIDs -> 0..MaxBarriers] :
        /\ \A t \in TaskIDs : KidsIn(par, t) = {} => cnt[t] = 0
        /\ SumSeq(cnt) <= MaxBarriers}


Rank(par, slot, t) ==
    Cardinality({c \in KidsIn(par, par[t]) : slot[c] = slot[t] /\ c <= t})

RECURSIVE NativeCreate(_, _, _, _, _, _)
NativeStart(par, brs, slot, dur, tied, t) == NativeCreate(par, brs, slot, dur, tied, t) + 1
NativeActiveStart(par, brs, slot, dur, tied, t, k) ==
    NativeStart(par, brs, slot, dur, tied, t) + (k - 1) * (ActiveLen + NativeWait)
NativeEnd(par, brs, slot, dur, tied, t) ==
    IF KidsIn(par, t) = {}
    THEN NativeStart(par, brs, slot, dur, tied, t) + dur[t]
    ELSE NativeActiveStart(par, brs, slot, dur, tied, t, Len(brs[t]) + 1) + ActiveLen
NativeCreate(par, brs, slot, dur, tied, t) ==
    IF par[t] = RootTask
    THEN IF t = 1 THEN 1 ELSE NativeEnd(par, brs, slot, dur, tied, t - 1) + 1
    ELSE NativeActiveStart(par, brs, slot, dur, tied, par[t], slot[t]) + Rank(par, slot, t)
         - (IF t = tied THEN 1 ELSE 0)

NativeHistory(par, brs, slot, dur, tied, t) ==
    LET n == IF KidsIn(par, t) = {} THEN 0 ELSE Len(brs[t])
        mid == [i \in 1..(2 * n) |->
                  IF i % 2 = 1
                  THEN [action |-> SUSPEND,
                        time |-> NativeActiveStart(par, brs, slot, dur, tied, t, (i + 1) \div 2)
                                   + ActiveLen]
                  ELSE [action |-> RESUME,
                        time |-> NativeActiveStart(par, brs, slot, dur, tied, t, (i \div 2) + 1)]]
    IN <<[action |-> CREATE, time |-> NativeCreate(par, brs, slot, dur, tied, t)],
         [action |-> START, time |-> NativeStart(par, brs, slot, dur, tied, t)]>>
       \o mid
       \o <<[action |-> END, time |-> NativeEnd(par, brs, slot, dur, tied, t)]>>

NativeSuspendMeta(par, brs, slot, dur, tied, t) ==
    IF KidsIn(par, t) = {} THEN {}
    ELSE {[time |-> NativeActiveStart(par, brs, slot, dur, tied, t, k) + ActiveLen,
           sync_mode |-> brs[t][k]] : k \in 1..Len(brs[t])}

\* the child count stored with a task; the store of a damaged trace holds a
\* count that is one too high for one task (miscounted # RootTask)
RecordedChildren(par, miscounted, t) ==
    Cardinality(KidsIn(par, t)) + (IF t = miscounted THEN 1 ELSE 0)

\* the tasks whose recorded child count may be damaged (RootTask: none)
Miscounts(par, cnt) ==
    {RootTask} \cup {t \in TaskIDs : KidsIn(par, t) # {} /\ SumSeq(cnt) <= MaxDamagedBarriers}

\* the tasks that may be created at the very tick at which the active interval
\* of their parent starts (RootTask: none); the children of a phase are given
\* the clock of the phase whatever their creation time
Ties(par, cnt, slot) ==
    {RootTask} \cup {t \in TaskIDs : /\ par[t] # RootTask
                                      /\ par[par[t]] # RootTask
                                      /\ Rank(par, slot, t) = 1
                                      /\ SumSeq(cnt) <= MaxTiedBarriers}

\* the phases whose stored history may hold the START row twice (RootTask:
\* none), and such a history
Repeats(par, cnt) ==
    {RootTask} \cup {t \in TaskIDs : par[t] = RootTask /\ SumSeq(cnt) <= MaxTiedBarriers}
RepeatedStart(h) == <<h[1], h[2]>> \o Tail(h)

WellFormedSlots(par, brs, slot) ==
    /\ \A t \in TaskIDs :
          IF par[t] = RootTask THEN slot[t] = 1
          ELSE slot[t] <= Len(brs[par[t]]) + 1
    \* task ids are handed out in creation order
    /\ \A s, t \in TaskIDs : (par[s] = par[t] /\ s < t) => slot[s] <= slot[t]

\* dur is the native duration of the leaves below the phases
WellFormedDurations(par, dur) ==
    \A t \in TaskIDs : (KidsIn(par, t) # {} \/ par[t] = RootTask) => dur[t] = 1

-----------------------------------------------------------------------------
(* ReadConnection: the queries the simulator issues against the store *)

get_root_task == RootTask

get_children_of(parent) == {c \in TaskIDs : task_relation[c] = parent}

HistoryTime(t, a) ==
    LET h == task_history[t]
        i == CHOOSE j \in 1..Len(h) : h[j].action = a
    IN h[i].time

get_task(t) ==
    [id |-> t,
     parent |-> task_relation[t],
     children |-> task_children[t],
     create_ts |-> HistoryTime(t, CREATE),
     start_ts |-> HistoryTime(t, START),
     end_ts |-> HistoryTime(t, END)]

\* one TaskSchedulingState per pair of consecutive actions of the task
get_task_scheduling_states(t) ==
    LET h == task_history[t]
    IN [i \in 1..(Len(h) - 1) |->
          [task |-> t,
           action_start |-> h[i].action,
           action_end |-> h[i + 1].action,
           start_ts |-> h[i].time,
           end_ts |-> h[i + 1].time,
           duration |-> h[i + 1].time - h[i].time]]

is_active(state) == state.action_start \in {START, RESUME}

get_task_suspend_meta(t, ts) ==
    (CHOOSE m \in task_suspend_meta[t] : m.time = ts).sync_mode

CreatedBefore(a, b) ==
    \/ HistoryTime(a, CREATE) < HistoryTime(b, CREATE)
    \/ HistoryTime(a, CREATE) = HistoryTime(b, CREATE) /\ a < b

get_children_created_between(t, start_ts, end_ts) ==
    SortSeq(SetToSeq({c \in get_children_of(t) :
                         /\ HistoryTime(c, CREATE) >= start_ts
                         /\ HistoryTime(c, CREATE) <= end_ts}),
            CreatedBefore)

-----------------------------------------------------------------------------
(* Timings and TaskTimingData.  A dict is kept as the sequence of its values *)
(* in insertion order, one entry per key.                                    *)

Timings(task, start_ts, duration, end_ts) ==
    [task |-> task, start_ts |-> start_ts, duration |-> duration, end_ts |-> end_ts]

TimingsGe(a, b) == a.end_ts >= b.end_ts
TimingsGt(a, b) == a.end_ts > b.end_ts

DictHas(d, k) == \E i \in 1..Len(d) : d[i].task = k

DictGet(d, k) == d[CHOOSE i \in 1..Len(d) : d[i].task = k]

DictSet(d, tm) ==
    IF DictHas(d, tm.task)
    THEN [i \in 1..Len(d) |-> IF d[i].task = tm.task THEN tm ELSE d[i]]
    ELSE Append(d, tm)

RECURSIVE DictUpdate(_, _)
DictUpdate(d, e) ==
    IF e = <<>> THEN d ELSE DictUpdate(DictSet(d, Head(e)), Tail(e))

RECURSIVE MaxFrom(_, _)
MaxFrom(m, s) ==
    IF s = <<>> THEN m
    ELSE MaxFrom(IF TimingsGt(Head(s), m) THEN Head(s) ELSE m, Tail(s))

\* Python's max(): the first item that no later item is greater than
PyMax(s) == MaxFrom(Head(s), Tail(s))

-----------------------------------------------------------------------------
(* TaskScheduler *)

UnsortedPhases(order) == order
SortedPhases(order) == SetToSeq(Range(order))

Frame(kind, task, ts) ==
    [kind |-> kind, task |-> task,
     start |-> ts,                    \* global_start_ts on entry
     clock |-> ts,                    \* global_ts / global_start_ts as it advances
     si |-> 1,                        \* position in the scheduling states
     stage |-> "state",               \* "state" | "children"
     children |-> <<>>,               \* children / children_created of the state
     ci |-> 0,                        \* position in children
     children_visited |-> 0,
     execution_native_dt |-> 0,
     suspended_ideal_dt |-> 0,
     barrier_counter |-> 0,
     children_pending |-> <<>>,
     descendants_timing_data |-> <<>>,
     timing_data |-> <<>>]            \* timing_data / local_timing_data

Top == stack[Len(stack)]

\* next(barrier_counter), lines 91-93, 97-99 and 246-248: the counter of the
\* task once a sequence number has been drawn from it
CounterStuck(f) == f.barrier_counter
CounterAfter(f) == f.barrier_counter + 1
States(f) == get_task_scheduling_states(f.task)
CurState(f) == States(f)[f.si]
SetTop(f) == [stack EXCEPT ![Len(stack)] = f]
Pop == SubSeq(stack, 1, Len(stack) - 1)

Running == pc = "run" /\ stack # <<>>
AtState(kind) ==
    /\ Running /\ Top.kind = kind /\ Top.stage = "state"
    /\ Top.si <= Len(States(Top))
AtChild ==
    /\ Running /\ Top.stage = "children" /\ Top.ci <= Len(Top.children)
AfterChildren(kind) ==
    /\ Running /\ Top.kind = kind /\ Top.stage = "children"
    /\ Top.ci > Len(Top.children)
AtReturn(kind) ==
    /\ Running /\ Top.kind = kind /\ Top.stage = "state"
    /\ Top.si > Len(States(Top))

Raise(e) ==
    /\ pc' = "error"
    /\ err' = e
    /\ UNCHANGED <<global_ts, phase_tasks, stack, phase_log,
                   crit_log, action_log, suspend_log>>

\* the simulator reads the store and never writes it, and takes no part in
\* lifecycle extraction
UnchangedStore ==
    UNCHANGED <<task_relation, task_history, task_suspend_meta, task_children, root_task,
                drvvars, dbvars, finvars>>

LeafSinceCreate(task) == task.end_ts - task.create_ts
leaf_task(task) == task.end_ts - task.start_ts

\* assert children_visited == task.children (lines 124 and 284)
ChildrenVisitedUnchecked(f) == TRUE
ChildrenVisitedOk(f) == f.children_visited = get_task(f.task).children

BranchNativeOnly(f) == f.execution_native_dt
BranchDuration(f) == f.execution_native_dt + f.suspended_ideal_dt

\* run(), lines 51-53
Run ==
    /\ pc = "start"
    /\ \E order \in Perms(get_children_of(get_root_task)) :
          phase_tasks' = SortedPhases(order)
    /\ global_ts' = 0
    /\ pc' = "run"
    /\ UNCHANGED <<err, stack, phase_log, crit_log, action_log, suspend_log>>
    /\ UnchangedStore

\* run(), line 55 -> simulate_phase(), lines 58-62
SimulatePhase ==
    /\ pc = "run" /\ stack = <<>> /\ phase_tasks # <<>>
    /\ stack' = <<Frame("phase", Head(phase_tasks), global_ts)>>
    /\ phase_tasks' = Tail(phase_tasks)
    /\ UNCHANGED <<pc, err, global_ts, phase_log, crit_log, action_log, suspend_log>>
    /\ UnchangedStore

\* run(): the loop over the phases is exhausted
RunDone ==
    /\ pc = "run" /\ stack = <<>> /\ phase_tasks = <<>>
    /\ pc' = "done"
    /\ UNCHANGED <<err, global_ts, phase_tasks, stack, phase_log,
                   crit_log, action_log, suspend_log>>
    /\ UnchangedStore

\* simulate_phase(), lines 64-78: an active state of the phase is entered
PhaseActiveBegin ==
    /\ AtState("phase") /\ is_active(CurState(Top))
    /\ LET state == CurState(Top)
           children == get_children_created_between(Top.task, state.start_ts, state.end_ts)
       IN stack' = SetTop([Top EXCEPT !.children = children, !.ci = 1,
                                      !.stage = "children", !.timing_data = <<>>])
    /\ UNCHANGED <<pc, err, global_ts, phase_tasks, phase_log,
                   crit_log, action_log, suspend_log>>
    /\ UnchangedStore

\* simulate_phase(), lines 106-109: assert not children
ChildrenUnchecked(f) == TRUE
NotChildren(f) == f.children = <<>>

\* simulate_phase(), lines 85-117: the end of an active state of the phase
PhaseActiveEnd ==
    /\ AfterChildren("phase")
    /\ LET f == Top
           state == CurState(f)
           next == [f EXCEPT !.si = f.si + 1, !.stage = "state"]
       IN IF state.action_end = SUSPEND
          THEN LET mode == get_task_suspend_meta(f.task, state.end_ts)
               IN /\ suspend_log' = Append(suspend_log,
                                           [task |-> f.task, time |-> f.clock, sync_mode |-> mode])
                  /\ IF f.children # <<>>
                     THEN IF mode = CHILDREN
                          THEN LET latest_child ==
                                       PyMax([i \in 1..Len(f.children) |->
                                                 DictGet(f.timing_data, f.children[i])])
                               IN /\ stack' = SetTop([next EXCEPT
                                         !.clock = Max(f.clock, latest_child.end_ts),
                                         !.barrier_counter = CounterAfter(f)])
                                  /\ crit_log' = Append(crit_log,
                                         [task |-> f.task, sequence |-> f.barrier_counter,
                                          critical_child |-> latest_child.task])
                          ELSE IF mode = DESCENDANTS
                          THEN LET latest_descendant == PyMax(f.timing_data)
                               IN /\ stack' = SetTop([next EXCEPT
                                         !.clock = Max(f.clock, latest_descendant.end_ts),
                                         !.barrier_counter = CounterAfter(f)])
                                  /\ crit_log' = Append(crit_log,
                                         [task |-> f.task, sequence |-> f.barrier_counter,
                                          critical_child |-> latest_descendant.task])
                          ELSE /\ stack' = SetTop(next)
                               /\ UNCHANGED crit_log
                     ELSE /\ stack' = SetTop([next EXCEPT !.clock = f.clock + state.duration])
                          /\ UNCHANGED crit_log
                  /\ UNCHANGED <<pc, err, global_ts, phase_tasks, phase_log, action_log>>
          ELSE IF state.action_end = END
          THEN IF NotChildren(f)
               THEN /\ stack' = SetTop(next)
                    /\ UNCHANGED <<pc, err, global_ts, phase_tasks, phase_log,
                                   crit_log, action_log, suspend_log>>
               ELSE Raise("AssertionError: unsynchronised children")
          ELSE Raise("RuntimeError: invalid end to active state")
    /\ UnchangedStore

\* simulate_phase(), lines 119-120: continue
PhaseSkipState ==
    /\ AtState("phase") /\ ~is_active(CurState(Top))
    /\ stack' = SetTop([Top EXCEPT !.si = Top.si + 1])
    /\ UNCHANGED <<pc, err, global_ts, phase_tasks, phase_log,
                   crit_log, action_log, suspend_log>>
    /\ UnchangedStore

\* simulate_phase(), lines 124-125, and the assignment in run(), line 55
PhaseReturn ==
    /\ AtReturn("phase")
    /\ IF ChildrenVisitedOk(Top)
       THEN /\ global_ts' = Top.clock
            /\ phase_log' = Append(phase_log,
                                   [phase |-> Top.task, start |-> Top.start, end |-> Top.clock])
            /\ stack' = Pop
            /\ UNCHANGED <<pc, err, phase_tasks, crit_log, action_log, suspend_log>>
       ELSE Raise("AssertionError: children_visited")
    /\ UnchangedStore

\* descend(), lines 135-156, for the next child of the state on top of the
\* stack, called from simulate_phase() line 82 or branch_task() lines 215-222
ChildStartSerial(f, child) ==
    LET ends == {f.timing_data[i].end_ts : i \in 1..Len(f.timing_data)}
        free == IF ends = {} THEN 0 ELSE CHOOSE x \in ends : \A y \in ends : x >= y
    IN IF f.kind = "phase" THEN f.clock
       ELSE Max(free, f.clock + (child.create_ts - CurState(f).start_ts))
ChildStart(f, child) ==
    IF f.kind = "phase" THEN f.clock
    ELSE f.clock + (child.create_ts - CurState(f).start_ts)

ChildCreateOk(f, child) ==
    f.kind = "branch" => child.create_ts - CurState(f).start_ts > 0

\* the caller's bookkeeping once descend() has returned
AfterDescend(f, timing_data) ==
    [f EXCEPT !.timing_data = timing_data,
              !.children_visited = f.children_visited + 1,
              !.ci = f.ci + 1,
              !.descendants_timing_data =
                  IF f.kind = "branch"
                  THEN DictUpdate(f.descendants_timing_data, timing_data)
                  ELSE f.descendants_timing_data]

DescendLeaf ==
    /\ AtChild
    /\ get_task(Top.children[Top.ci]).children = 0
    /\ LET f == Top
           child == get_task(f.children[f.ci])
           ts == ChildStart(f, child)
           duration == leaf_task(child)
       IN IF ChildCreateOk(f, child)
          THEN /\ action_log' = action_log \o
                      <<[task |-> child.id, action |-> CREATE, time |-> ts],
                        [task |-> child.id, action |-> START, time |-> ts],
                        [task |-> child.id, action |-> END, time |-> ts + duration]>>
               /\ stack' = SetTop(AfterDescend(f,
                               DictSet(f.timing_data,
                                       Timings(child.id, ts, duration, ts + duration))))
               /\ UNCHANGED <<pc, err, global_ts, phase_tasks, phase_log,
                              crit_log, suspend_log>>
          ELSE Raise("AssertionError: child_crt_dt")
    /\ UnchangedStore

DescendBranch ==
    /\ AtChild
    /\ get_task(Top.children[Top.ci]).children > 0
    /\ LET f == Top
           child == get_task(f.children[f.ci])
           ts == ChildStart(f, child)
       IN IF ChildCreateOk(f, child)
          THEN /\ action_log' = action_log \o
                      <<[task |-> child.id, action |-> CREATE, time |-> ts],
                        [task |-> child.id, action |-> START, time |-> ts]>>
               /\ stack' = Append(stack, Frame("branch", child.id, ts))
               /\ UNCHANGED <<pc, err, global_ts, phase_tasks, phase_log,
                              crit_log, suspend_log>>
          ELSE Raise("AssertionError: child_crt_dt")
    /\ UnchangedStore

\* branch_task(), lines 199-213
BranchActiveBegin ==
    /\ AtState("branch") /\ is_active(CurState(Top))
    /\ LET f == Top
           state == CurState(f)
           children_created ==
               get_children_created_between(f.task, state.start_ts, state.end_ts)
       IN stack' = SetTop([f EXCEPT
              !.execution_native_dt = f.execution_native_dt + state.duration,
              !.children = children_created,
              !.children_pending = f.children_pending \o children_created,
              !.timing_data = <<>>,
              !.ci = 1,
              !.stage = "children"])
    /\ UNCHANGED <<pc, err, global_ts, phase_tasks, phase_log,
                   crit_log, action_log, suspend_log>>
    /\ UnchangedStore

\* branch_task(), line 225: advance global time by state.duration
ClockUnchanged(f) == f.clock
ClockAfterActive(f) == f.clock + CurState(f).duration

BranchActiveEnd ==
    /\ AfterChildren("branch")
    /\ stack' = SetTop([Top EXCEPT !.clock = ClockAfterActive(Top),
                                   !.si = Top.si + 1,
                                   !.stage = "state"])
    /\ UNCHANGED <<pc, err, global_ts, phase_tasks, phase_log,
                   crit_log, action_log, suspend_log>>
    /\ UnchangedStore

\* branch_task(), lines 241, 250 and 251-252: children_pending.clear() at a
\* CHILDREN or DESCENDANTS barrier, nothing at a YIELD
PendingCleared(f, mode) == <<>>
PendingAfter(f, mode) == IF mode = YIELD THEN f.children_pending ELSE <<>>

\* branch_task(), lines 255-266: the simulated barrier start and end
SuspendResumeAtOnce(task, global_start_ts, barrier_duration) ==
    <<[task |-> task, action |-> SUSPEND, time |-> global_start_ts],
      [task |-> task, action |-> RESUME, time |-> global_start_ts]>>
SuspendResume(task, global_start_ts, barrier_duration) ==
    <<[task |-> task, action |-> SUSPEND, time |-> global_start_ts],
      [task |-> task, action |-> RESUME, time |-> global_start_ts + barrier_duration]>>

\* branch_task(), lines 230-271: a suspended state
BranchSuspend ==
    /\ AtState("branch") /\ CurState(Top).action_start = SUSPEND
    /\ LET f == Top
           state == CurState(f)
           mode == get_task_suspend_meta(f.task, state.start_ts)
           empty == \/ mode = CHILDREN /\ f.children_pending = <<>>
                    \/ mode = DESCENDANTS /\ f.descendants_timing_data = <<>>
           latest == IF mode = CHILDREN
                     THEN PyMax([i \in 1..Len(f.children_pending) |->
                                    DictGet(f.descendants_timing_data, f.children_pending[i])])
                     ELSE PyMax(f.descendants_timing_data)
           waits == mode # YIELD /\ latest.end_ts >= f.clock
           barrier_duration == IF waits THEN latest.end_ts - f.clock ELSE 0
           emits == mode = DESCENDANTS /\ waits
       IN IF empty
          THEN Raise("ValueError: max() arg is an empty sequence")
          ELSE /\ crit_log' = IF emits
                              THEN Append(crit_log,
                                          [task |-> f.task, sequence |-> f.barrier_counter,
                                           critical_child |-> latest.task])
                              ELSE crit_log
               /\ suspend_log' = Append(suspend_log,
                                        [task |-> f.task, time |-> f.clock, sync_mode |-> mode])
               /\ action_log' = action_log \o SuspendResume(f.task, f.clock, barrier_duration)
               /\ stack' = SetTop([f EXCEPT
                      !.barrier_counter = IF emits THEN CounterAfter(f)
                                          ELSE f.barrier_counter,
                      !.children_pending = PendingAfter(f, mode),
                      !.clock = f.clock + barrier_duration,
                      !.suspended_ideal_dt = f.suspended_ideal_dt + barrier_duration,
                      !.si = f.si + 1])
               /\ UNCHANGED <<pc, err, global_ts, phase_tasks, phase_log>>
    /\ UnchangedStore

\* branch_task(), lines 276-278: the state from CREATE to START
BranchSkipState ==
    /\ AtState("branch") /\ CurState(Top).action_start = CREATE
    /\ stack' = SetTop([Top EXCEPT !.si = Top.si + 1])
    /\ UNCHANGED <<pc, err, global_ts, phase_tasks, phase_log,
                   crit_log, action_log, suspend_log>>
    /\ UnchangedStore

\* branch_task(), lines 282-286, then descend(), lines 145-156, then the
\* caller's loop body after descend()
BranchReturn ==
    /\ AtReturn("branch")
    /\ LET g == Top
           f == stack[Len(stack) - 1]
           duration == BranchDuration(g)
           timing_data == DictSet(DictUpdate(f.timing_data, g.descendants_timing_data),
                                  Timings(g.task, g.start, duration, g.start + duration))
       IN IF ChildrenVisitedOk(g)
          THEN /\ action_log' = Append(action_log,
                      [task |-> g.task, action |-> END, time |-> g.start + duration])
               /\ stack' = [Pop EXCEPT ![Len(stack) - 1] = AfterDescend(f, timing_data)]
               /\ UNCHANGED <<pc, err, global_ts, phase_tasks, phase_log,
                              crit_log, suspend_log>>
          ELSE Raise("AssertionError: children_visited")
    /\ UnchangedStore

-----------------------------------------------------------------------------
(* The simulator run on every stored trace of the family *)

InitStore ==
    \E par \in Shapes :
    \E cnt \in BarrierCounts(par) :
    \E modes \in [1..SumSeq(cnt) -> TaskSyncMode] :
    LET brs == BarriersOf(cnt, modes) IN
    \E slot \in {s \in [TaskIDs -> 1..(MaxBarriers + 1)] : WellFormedSlots(par, brs, s)} :
    \E dur \in {d \in [TaskIDs -> 1..MaxDur] : WellFormedDurations(par, d)} :
    \E miscounted \in Miscounts(par, cnt) :
    \E tied \in Ties(par, cnt, slot) :
    \E repeated \in Repeats(par, cnt) :
        /\ task_relation = par
        /\ task_history = [t \in TaskIDs |->
                               IF t = repeated
                               THEN RepeatedStart(NativeHistory(par, brs, slot, dur, tied, t))
                               ELSE NativeHistory(par, brs, slot, dur, tied, t)]
        /\ task_suspend_meta = [t \in TaskIDs |-> NativeSuspendMeta(par, brs, slot, dur, tied, t)]
        /\ task_children = [t \in TaskIDs |-> RecordedChildren(par, miscounted, t)]

\* __init__(), line 47: initial_task or reader.get_root_task()
RootTaskFrom(initial_task) ==
    IF initial_task = None \/ initial_task = 0 THEN get_root_task ELSE initial_task

Constructed(initial_task) ==
    /\ pc = "start"
    /\ err = ""
    /\ root_task = RootTaskFrom(initial_task)
    /\ global_ts = 0
    /\ phase_tasks = <<>>
    /\ stack = <<>>
    /\ phase_log = <<>>
    /\ crit_log = <<>>
    /\ action_log = <<>>
    /\ suspend_log = <<>>

\* simulate_ideal(), line 299: the scheduler is made without an initial task
InitScheduler == Constructed(None)

\* the finite-resource scheduler is not at work
FiniteIdle ==
    /\ ready_tasks = {}
    /\ waiting_tasks = <<>>
    /\ running_tasks = {}
    /\ task_scheduling_points = <<>>
    /\ pool_err = ""
    /\ created_tasks = {}
    /\ scheduled_tasks = {}
    /\ pool_log = <<>>

\* nothing is written while a stored trace is simulated or a trace ingested
Tables == {"task_history", "task_suspend_meta", "critical_task"}
PersistenceIdle ==
    /\ context = "WriteConnection"
    /\ body = "finished"
    /\ caller = "returned"
    /\ buffer = [t \in Tables |-> <<>>]
    /\ committed = [t \in Tables |-> <<>>]
    /\ inserted = [t \in Tables |-> <<>>]
    /\ closed = <<>>

\* no trace is being ingested while a stored trace is simulated
DriverIdle ==
    /\ event_model = "TASKGRAPH"
    /\ total_events = 0
    /\ task_meta = <<>>
    /\ task_actions = <<>>
    /\ suspend_meta = <<>>
    /\ calls = <<>>
    /\ events_iter = <<>>
    /\ malformed = 0
    /\ num_chunks = 0
    /\ retval = NotReturned
    /\ queries = <<>>
    /\ traced = <<>>
    /\ current_task = NullTaskID

Init == InitStore /\ InitScheduler /\ DriverIdle /\ PersistenceIdle /\ FiniteIdle

Next ==
    \/ Run
    \/ SimulatePhase
    \/ RunDone
    \/ PhaseActiveBegin
    \/ PhaseActiveEnd
    \/ PhaseSkipState
    \/ PhaseReturn
    \/ DescendLeaf
    \/ DescendBranch
    \/ BranchActiveBegin
    \/ BranchActiveEnd
    \/ BranchSuspend
    \/ BranchSkipState
    \/ BranchReturn

Spec == Init /\ [][Next]_vars

-----------------------------------------------------------------------------
(* What the sinks and the store say about a run, independently of the        *)
(* scheduler's own bookkeeping                                                *)

Emitted(t, a) == \E i \in 1..Len(action_log) :
                    action_log[i].task = t /\ action_log[i].action = a
EmittedTime(t, a) ==
    action_log[CHOOSE i \in 1..Len(action_log) :
                  action_log[i].task = t /\ action_log[i].action = a].time
SimStart(t) == EmittedTime(t, START)
SimEnd(t) == EmittedTime(t, END)

ChildrenOf(t) == {c \in TaskIDs : task_relation[c] = t}
RECURSIVE DescendantsOf(_)
DescendantsOf(t) ==
    ChildrenOf(t) \cup UNION {DescendantsOf(c) : c \in ChildrenOf(t)}

MaxOf(S) == CHOOSE x \in S : \A y \in S : x >= y

\* the native times at which task t suspended with a CHILDREN or DESCENDANTS
\* barrier
SyncTimes(t) == {m.time : m \in {n \in task_suspend_meta[t] : n.sync_mode # YIELD}}

\* the children task t created before its barrier at native time bts and not
\* before an earlier CHILDREN/DESCENDANTS barrier
SyncSet(t, bts) ==
    {c \in ChildrenOf(t) :
        /\ HistoryTime(c, CREATE) <= bts
        /\ ~\E s \in SyncTimes(t) : HistoryTime(c, CREATE) <= s /\ s < bts}

\* the descendants of t whose simulation has finished
SimulatedDescendants(t) == {d \in DescendantsOf(t) : Emitted(d, END)}

NativeActiveTime(t) ==
    LET st == get_task_scheduling_states(t)
    IN SumSeq([i \in 1..Len(st) |->
                  IF st[i].action_start \in {START, RESUME} THEN st[i].duration ELSE 0])

\* the barrier durations of t as the action sink saw them
EmittedSuspendedTime(t) ==
    LET a == SelectSeq(action_log, LAMBDA x : x.task = t)
    IN SumSeq([i \in 1..Len(a) |->
                  IF a[i].action = RESUME /\ i > 1 /\ a[i - 1].action = SUSPEND
                  THEN a[i].time - a[i - 1].time ELSE 0])

\* the scheduler is about to resolve a suspend interval of the task on top of
\* the stack: branch_task at the suspended state, simulate_phase at the end of
\* the active state that the suspend closes
AtBranchBarrier == AtState("branch") /\ CurState(Top).action_start = SUSPEND
AtPhaseBarrier == AfterChildren("phase") /\ CurState(Top).action_end = SUSPEND
AtBarrier == AtBranchBarrier \/ AtPhaseBarrier
BarrierTs == IF Top.kind = "branch" THEN CurState(Top).start_ts ELSE CurState(Top).end_ts
BarrierMode == get_task_suspend_meta(Top.task, BarrierTs)
RecordsOf(t) == SelectSeq(crit_log, LAMBDA r : r.task = t)

\* C2: a CHILDREN barrier reached at simulated time now lasts max(0, E - now)
\* and leaves the clock at max(now, E), E being the latest simulated end of
\* the children created since the previous barrier (or task start).
C2_ChildrenBarrier ==
    [][(AtBarrier /\ BarrierMode = CHILDREN /\ SyncSet(Top.task, BarrierTs) # {})
         => LET now == Top.clock
                E == MaxOf({SimEnd(c) : c \in SyncSet(Top.task, BarrierTs)})
                after == stack'[Len(stack)]
            IN /\ pc' = "run"
               /\ after.clock = Max(now, E)
               /\ Top.kind = "branch" =>
                     after.suspended_ideal_dt - Top.suspended_ideal_dt = Max(0, E - now)]_vars

\* C3: every CHILDREN barrier of a phase or branch task emits one
\* critical-task record (task, next sequence number, the synchronised child
\* with the latest simulated end).
C3_ChildrenCritical ==
    [][(AtBarrier /\ BarrierMode = CHILDREN /\ SyncSet(Top.task, BarrierTs) # {})
         => LET S == SyncSet(Top.task, BarrierTs)
                E == MaxOf({SimEnd(c) : c \in S})
            IN /\ Len(crit_log') = Len(crit_log) + 1
               /\ SubSeq(crit_log', 1, Len(crit_log)) = crit_log
               /\ LET r == crit_log'[Len(crit_log')]
                  IN /\ r.task = Top.task
                     /\ r.sequence = Len(RecordsOf(Top.task))
                     /\ r.critical_child \in S
                     /\ SimEnd(r.critical_child) = E]_vars

\* C4: a DESCENDANTS barrier of a phase or branch task leaves the clock at
\* max(now, E), E being the latest simulated end among all descendants of the
\* task simulated so far, at any depth and from any earlier active interval.
C4_DescendantsBarrier ==
    [][(AtBarrier /\ BarrierMode = DESCENDANTS /\ SimulatedDescendants(Top.task) # {})
         => LET now == Top.clock
                E == MaxOf({SimEnd(d) : d \in SimulatedDescendants(Top.task)})
            IN /\ pc' = "run"
               /\ stack'[Len(stack)].clock = Max(now, E)]_vars

\* C5: every DESCENDANTS barrier emits one critical-task record naming the
\* descendant, at any depth, with the latest simulated end.
C5_DescendantsCritical ==
    [][(AtBarrier /\ BarrierMode = DESCENDANTS /\ SimulatedDescendants(Top.task) # {})
         => LET S == SimulatedDescendants(Top.task)
                E == MaxOf({SimEnd(d) : d \in S})
            IN /\ Len(crit_log') = Len(crit_log) + 1
               /\ SubSeq(crit_log', 1, Len(crit_log)) = crit_log
               /\ LET r == crit_log'[Len(crit_log')]
                  IN /\ r.task = Top.task
                     /\ r.critical_child \in S
                     /\ SimEnd(r.critical_child) = E]_vars

\* C6: a YIELD suspend adds nothing to the clock or to the idealized duration
\* of a phase or branch task, its simulated SUSPEND and RESUME carry the same
\* timestamp, and it emits no critical-task record.
C6_YieldBarrier ==
    [][(AtBarrier /\ BarrierMode = YIELD)
         => LET now == Top.clock
                after == stack'[Len(stack)]
            IN /\ pc' = "run"
               /\ after.clock = now
               /\ crit_log' = crit_log
               /\ Top.kind = "branch" =>
                     /\ after.suspended_ideal_dt = Top.suspended_ideal_dt
                     /\ action_log' = action_log \o
                           <<[task |-> Top.task, action |-> SUSPEND, time |-> now],
                             [task |-> Top.task, action |-> RESUME, time |-> now]>>]_vars

\* every timing entry the scheduler currently holds, in any frame
HeldTimings ==
    UNION {Range(stack[i].timing_data) \cup Range(stack[i].descendants_timing_data)
              : i \in 1..Len(stack)}
IsLeaf(t) == task_children[t] = 0
NativeRunTime(t) == HistoryTime(t, END) - HistoryTime(t, START)

\* C7: a task without children that the simulator descended into ends, in the
\* simulation, its native end_ts - start_ts after its simulated start, and its
\* timing entry has that duration and end_ts = simulated start + duration.
C7_LeafDuration ==
    /\ \A t \in TaskIDs : (IsLeaf(t) /\ Emitted(t, END)) =>
          SimEnd(t) - SimStart(t) = NativeRunTime(t)
    /\ \A tm \in HeldTimings : IsLeaf(tm.task) =>
          /\ tm.duration = NativeRunTime(tm.task)
          /\ tm.start_ts = SimStart(tm.task)
          /\ tm.end_ts = tm.start_ts + tm.duration

C7_Witness ==
    \E tm \in HeldTimings :
        /\ IsLeaf(tm.task) /\ Emitted(tm.task, END)
        /\ tm.start_ts > 0 /\ tm.duration = MaxDur

\* C8: the idealized duration of a branch task that returned is the native
\* time of its active intervals plus the resolved durations of its barriers,
\* hence at least its native execution time.
C8_BranchDuration ==
    /\ \A t \in TaskIDs : (~IsLeaf(t) /\ Emitted(t, END)) =>
          /\ SimEnd(t) - SimStart(t) = NativeActiveTime(t) + EmittedSuspendedTime(t)
          /\ SimEnd(t) - SimStart(t) >= NativeActiveTime(t)
    /\ \A tm \in HeldTimings : ~IsLeaf(tm.task) =>
          tm.duration = NativeActiveTime(tm.task) + EmittedSuspendedTime(tm.task)

C8_Witness ==
    \E t \in TaskIDs :
        /\ ~IsLeaf(t) /\ Emitted(t, END)
        /\ EmittedSuspendedTime(t) > 0
        /\ Cardinality(task_suspend_meta[t]) = 2

\* the children of t the simulator has descended into
Descended(t) == {c \in ChildrenOf(t) : Emitted(c, CREATE)}
\* t's simulation returned a duration (branch task) or a clock (phase task)
Returned(t) ==
    \/ task_relation[t] # RootTask /\ ~IsLeaf(t) /\ Emitted(t, END)
    \/ \E i \in 1..Len(phase_log) : phase_log[i].phase = t

\* C9: no phase or branch task returns from its simulation with a number of
\* descended children different from its recorded child count, the run aborts
\* instead, and so no run that completes holds such a task.
C9_ChildCountAbort ==
    /\ \A t \in TaskIDs : Returned(t) => Cardinality(Descended(t)) = task_children[t]
    /\ pc = "done" =>
          \A t \in TaskIDs : (task_relation[t] = RootTask \/ Emitted(t, START)) =>
              Cardinality(ChildrenOf(t)) = task_children[t]

C9_Witness ==
    /\ pc = "error" /\ err = "AssertionError: children_visited"
    /\ Cardinality(Descended(Top.task)) # task_children[Top.task]
    /\ Descended(Top.task) = ChildrenOf(Top.task)

\* the i-th phase task in ascending order of task id
PhaseTasks == ChildrenOf(get_root_task)
NthPhase(i) == CHOOSE p \in PhaseTasks : Cardinality({q \in PhaseTasks : q < p}) = i - 1
PhaseStart(i) == IF i = 1 THEN 0 ELSE phase_log[i - 1].end

\* C10: the phase tasks are simulated one at a time in ascending task-id
\* order, the first from time 0 and each later one from the simulated end
\* returned by the phase before it.
C10_PhaseSequence ==
    /\ Len(phase_log) <= Cardinality(PhaseTasks)
    /\ \A i \in 1..Len(phase_log) :
          /\ phase_log[i].phase = NthPhase(i)
          /\ phase_log[i].start = PhaseStart(i)
    /\ \A i \in 1..Len(stack) : stack[i].kind = "phase" <=> i = 1
    /\ stack # <<>> =>
          /\ Len(phase_log) < Cardinality(PhaseTasks)
          /\ stack[1].task = NthPhase(Len(phase_log) + 1)
          /\ stack[1].start = PhaseStart(Len(phase_log) + 1)
    /\ pc = "done" => Len(phase_log) = Cardinality(PhaseTasks)

C10_Witness ==
    /\ pc = "done"
    /\ Len(phase_log) = 2
    /\ phase_log[2].start > 0
    /\ phase_log[2].start = phase_log[1].end

\* the simulated start of the k-th phase, once it has been entered
PhaseEntered(k) == k <= Len(phase_log) \/ (k = Len(phase_log) + 1 /\ stack # <<>>)
PhaseEnteredAt(k) == IF k <= Len(phase_log) THEN phase_log[k].start ELSE stack[1].start

\* C11: simulated phases do not overlap: once phase k+1 has started, no
\* simulated action of a task in the subtree of phase k carries a timestamp
\* later than the simulated start of phase k+1.
C11_PhasesDisjoint ==
    \A k \in 1..Len(phase_log) :
        PhaseEntered(k + 1) =>
            \A i \in 1..Len(action_log) :
                action_log[i].task \in DescendantsOf(phase_log[k].phase) =>
                    action_log[i].time <= PhaseEnteredAt(k + 1)

\* the timings a barrier chooses among, in the order they are iterated
Candidates ==
    LET f == Top
        of(d, ids) == [i \in 1..Len(ids) |-> DictGet(d, ids[i])]
    IN IF f.kind = "phase"
       THEN IF BarrierMode = CHILDREN THEN of(f.timing_data, f.children) ELSE f.timing_data
       ELSE IF BarrierMode = CHILDREN THEN of(f.descendants_timing_data, f.children_pending)
            ELSE f.descendants_timing_data
FirstMaximal(s) ==
    s[CHOOSE i \in 1..Len(s) :
         /\ \A j \in 1..Len(s) : s[j].end_ts <= s[i].end_ts
         /\ \A j \in 1..(i - 1) : s[j].end_ts < s[i].end_ts]

-----------------------------------------------------------------------------
(* Lifecycle extraction: the event classifiers *)

MaxTask == 3
MaxEvents == 7

DriverTasks == 0..MaxTask

Event(event_type, unique_id, encountering_task_id, parent_task_id, next_task_id, prior_task_status, time) ==
    [event_type |-> event_type, unique_id |-> unique_id,
     encountering_task_id |-> encountering_task_id,
     parent_task_id |-> parent_task_id, next_task_id |-> next_task_id,
     prior_task_status |-> prior_task_status, time |-> time]

\* the attributes only some events carry
TaskLabels == {"A", "B"}
TaskSyncType == {"children", "descendants"}
Labelled(e, task_label) == e @@ ("task_label" :> task_label)
Syncing(e, sync_descendant_tasks) == e @@ ("sync_descendant_tasks" :> sync_descendant_tasks)
InRegion(e, region_type) == e @@ ("region_type" :> region_type)
\* Event.get(item, default)
EventGet(e, item, default) == IF item \in DOMAIN e THEN e[item] ELSE default
NoRegion == "None"

\* OMPEventModel
OMP_event_updates_and_completes_chunk(e) ==
    <<EventGet(e, "region_type", NoRegion), e.event_type>> \in
        {<<"parallel", "parallel_end">>, <<"single_executor", "workshare_end">>,
         <<"master", "master_end">>, <<"initial_task", "task_leave">>}
OMP_event_completes_chunk(e) ==
    \/ OMP_event_updates_and_completes_chunk(e)
    \/ e.event_type = "task_switch" /\ e.prior_task_status = "complete"
OMP_is_task_enter_event(e) == e.event_type = "task_enter"
OMP_is_task_leave_event(e) == e.event_type = "task_leave"
OMP_is_task_switch_event(e) == e.event_type = "task_switch"
OMP_is_task_register_event(e) == e.event_type \in {"task_enter", "task_create"}
OMP_is_task_complete_event(e) ==
    \/ OMP_is_task_leave_event(e)
    \/ /\ OMP_is_task_switch_event(e)
       /\ e.prior_task_status \in {"complete", "cancel"}
\* (OMP_is_enter_or_switch_event takes every task-switch for a start)
OMP_is_enter_or_switch_event(e) == OMP_is_task_enter_event(e) \/ OMP_is_task_switch_event(e)
OMP_is_update_task_start_ts_event(e) ==
    \/ OMP_is_task_enter_event(e)
    \/ OMP_is_task_switch_event(e) /\ ~OMP_is_task_complete_event(e)
OMP_get_task_entered(e) ==
    IF OMP_is_task_enter_event(e) THEN e.unique_id ELSE e.next_task_id
OMP_get_task_completed(e) ==
    IF OMP_is_task_leave_event(e) THEN e.unique_id ELSE e.encountering_task_id
OMP_get_task_data(e) ==
    [id |-> e.unique_id, parent_id |-> e.parent_task_id, task_label |-> e.task_label]
OMP_is_task_suspend_event(e) == e.event_type = "sync_begin"
OMP_is_task_resume_event(e) == e.event_type = "sync_end"

\* TaskGraphEventModel
TG_event_completes_chunk(e) == e.event_type = "task_leave"
\* (TG_is_child_create_event leaves out the task-create event of the root)
TG_is_child_create_event(e) == e.event_type = "task_create" /\ e.unique_id # 0
TG_is_task_register_event(e) == e.event_type = "task_create"
TG_is_update_task_start_ts_event(e) == e.event_type = "task_enter"
TG_is_task_complete_event(e) == e.event_type = "task_leave"
TG_is_task_suspend_event(e) == e.event_type = "sync_begin"
TG_is_task_resume_event(e) == e.event_type = "sync_end"
TG_get_task_completed(e) == e.encountering_task_id
TG_get_task_entered(e) == e.encountering_task_id
TG_get_task_registered_data(e) ==
    [id |-> e.unique_id, parent_id |-> e.encountering_task_id, task_label |-> e.task_label]

\* the event model selected for the trace (get_event_model)
is_task_register_event(e) ==
    IF event_model = "OMP" THEN OMP_is_task_register_event(e)
    ELSE TG_is_task_register_event(e)
is_update_task_start_ts_event(e) ==
    IF event_model = "OMP" THEN OMP_is_update_task_start_ts_event(e)
    ELSE TG_is_update_task_start_ts_event(e)
is_task_complete_event(e) ==
    IF event_model = "OMP" THEN OMP_is_task_complete_event(e)
    ELSE TG_is_task_complete_event(e)
is_task_suspend_event(e) ==
    IF event_model = "OMP" THEN OMP_is_task_suspend_event(e)
    ELSE TG_is_task_suspend_event(e)
is_task_resume_event(e) ==
    IF event_model = "OMP" THEN OMP_is_task_resume_event(e)
    ELSE TG_is_task_resume_event(e)
event_completes_chunk(e) ==
    IF event_model = "OMP" THEN OMP_event_completes_chunk(e) ELSE TG_event_completes_chunk(e)
get_task_entered(e) ==
    IF event_model = "OMP" THEN OMP_get_task_entered(e) ELSE TG_get_task_entered(e)
get_task_completed(e) ==
    IF event_model = "OMP" THEN OMP_get_task_completed(e) ELSE TG_get_task_completed(e)
get_task_registered_data(e) ==
    IF event_model = "OMP" THEN OMP_get_task_data(e) ELSE TG_get_task_registered_data(e)

-----------------------------------------------------------------------------
(* The event streams: what a traced program can emit next *)

Unused == {t \in DriverTasks : traced[t].st = "none"}
NewTask == CHOOSE t \in Unused : \A u \in Unused : t <= u
Now == total_events + 1

\* flat task-graph traces: every task is created by a running task (the root
\* by none), entered, may wait at synchronisation points, and is left
TaskGraphEvents ==
    {Labelled(Event("task_create", NewTask, p, NullTaskID, NullTaskID, "", Now), l) :
        l \in TaskLabels,
        p \in {q \in DriverTasks \cup {NullTaskID} :
                  /\ Unused # {}
                  /\ IF Unused = DriverTasks THEN q = NullTaskID
                     ELSE q # NullTaskID /\ traced[q].st = "running"}}
    \cup
    {e \in {Event(ty, NullTaskID, t, NullTaskID, NullTaskID, "", Now) :
                ty \in {"task_enter", "sync_end", "task_leave"},
                t \in DriverTasks} :
        traced[e.encountering_task_id].st =
            (CASE e.event_type = "task_enter" -> "created"
               [] e.event_type = "sync_end" -> "waiting"
               [] e.event_type = "task_leave" -> "running")}
    \cup
    {Syncing(Event("sync_begin", NullTaskID, t, NullTaskID, NullTaskID, "", Now), d) :
        d \in TaskSyncType, t \in {u \in DriverTasks : traced[u].st = "running"}}
    \cup
    {Event("phase_begin", NullTaskID, t, NullTaskID, NullTaskID, "", Now) :
        t \in {u \in DriverTasks : traced[u].st = "running"}}

\* fork-join traces of one thread: the initial task is entered and left, and
\* explicit tasks are created by the running task and scheduled by task-switch
\* events at the scheduling points of the encountering task (inside one of
\* its synchronisation regions, or at its completion)
CanResume(n) ==
    \/ traced[n].st = "created"
    \/ traced[n].st = "waiting" /\ n # current_task

OMPEvents ==
    {Event("workshare_begin", NullTaskID, current_task, NullTaskID, NullTaskID, "", Now) :
        x \in {y \in {0} : /\ current_task # NullTaskID
                           /\ traced[current_task].st = "running"}}
    \cup
    {Labelled(InRegion(Event("task_enter", NewTask, NullTaskID, NullTaskID, NullTaskID, "", Now), "initial_task"), l) :
        l \in TaskLabels,
        x \in {y \in {0} : current_task = NullTaskID /\ Unused = DriverTasks}}
    \cup
    {Labelled(Event("task_create", NewTask, current_task, current_task, NullTaskID, "", Now), l) :
        l \in TaskLabels,
        x \in {y \in {0} : /\ current_task # NullTaskID /\ Unused # {}
                           /\ traced[current_task].st = "running"}}
    \cup
    {Syncing(Event("sync_begin", NullTaskID, current_task, NullTaskID, NullTaskID, "", Now), d) :
        d \in TaskSyncType,
        x \in {y \in {0} : /\ current_task # NullTaskID
                           /\ traced[current_task].st = "running"}}
    \cup
    {Event("sync_end", NullTaskID, current_task, NullTaskID, NullTaskID, "", Now) :
        x \in {y \in {0} : /\ current_task # NullTaskID
                           /\ traced[current_task].st = "waiting"}}
    \cup
    {InRegion(Event("task_leave", current_task, NullTaskID, NullTaskID, NullTaskID, "", Now), "initial_task") :
        x \in {y \in {0} : /\ current_task # NullTaskID
                           /\ traced[current_task].st = "running"
                           /\ ~traced[current_task].explicit}}
    \cup
    {Event("task_switch", NullTaskID, current_task, NullTaskID, n, "switch", Now) :
        n \in {m \in DriverTasks : /\ current_task # NullTaskID
                                   /\ traced[current_task].st = "waiting"
                                   /\ traced[m].st = "created"}}
    \cup
    {Event("task_switch", NullTaskID, current_task, NullTaskID, n, "complete", Now) :
        n \in {m \in DriverTasks : /\ current_task # NullTaskID
                                   /\ traced[current_task].st = "running"
                                   /\ traced[current_task].explicit
                                   /\ CanResume(m)}}

NextEvents == IF event_model = "OMP" THEN OMPEvents ELSE TaskGraphEvents

\* damaged traces: an event of some task that the traced program, in its
\* state, cannot emit
MaxMalformed == 1
MaxQueries == 2
AnyEvents ==
    (IF event_model = "OMP"
     THEN {Event(ty, NullTaskID, t, NullTaskID, NullTaskID, "", Now) :
              ty \in {"sync_end"}, t \in DriverTasks}
          \cup {Event("task_leave", t, NullTaskID, NullTaskID, NullTaskID, "", Now) :
                   t \in DriverTasks}
     ELSE {Event(ty, NullTaskID, t, NullTaskID, NullTaskID, "", Now) :
              ty \in {"task_enter", "sync_end", "task_leave"}, t \in DriverTasks})
    \cup {Syncing(Event("sync_begin", NullTaskID, t, NullTaskID, NullTaskID, "", Now), d) :
             d \in TaskSyncType, t \in DriverTasks}
MalformedEvents == AnyEvents \ NextEvents

\* the traced program after it has emitted e
TracedAfter(e) ==
    LET ty == e.event_type
        set(t, st) == [traced EXCEPT ![t].st = st]
    IN CASE ty = "task_create" ->
                [traced EXCEPT ![e.unique_id] = [st |-> "created", explicit |-> TRUE]]
         [] ty = "task_enter" /\ event_model = "OMP" ->
                [traced EXCEPT ![e.unique_id] = [st |-> "running", explicit |-> FALSE]]
         [] ty = "task_enter" /\ event_model # "OMP" -> set(e.encountering_task_id, "running")
         [] ty = "sync_begin" -> set(e.encountering_task_id, "waiting")
         [] ty = "sync_end" -> set(e.encountering_task_id, "running")
         [] ty = "task_leave" /\ event_model = "OMP" -> set(e.unique_id, "done")
         [] ty = "task_leave" /\ event_model # "OMP" -> set(e.encountering_task_id, "done")
         [] ty = "task_switch" ->
                LET prior == IF e.prior_task_status = "complete"
                             THEN set(e.encountering_task_id, "done") ELSE traced
                IN IF traced[e.next_task_id].st = "created"
                   THEN [prior EXCEPT ![e.next_task_id].st = "running"]
                   ELSE prior
         [] OTHER -> traced

CurrentAfter(e) ==
    IF event_model # "OMP" THEN current_task
    ELSE CASE e.event_type = "task_enter" -> e.unique_id
           [] e.event_type = "task_leave" -> NullTaskID
           [] e.event_type = "task_switch" -> e.next_task_id
           [] OTHER -> current_task

-----------------------------------------------------------------------------
(* BaseEventModel.generate_chunks: the task-builder part of the loop body *)

Action(task, action, time) == [task |-> task, action |-> action, time |-> time]

RegisterActions(e) ==
    IF is_task_register_event(e)
    THEN <<Action(get_task_registered_data(e).id, CREATE, e.time)>> ELSE <<>>
\* (StartActionsUnguarded sends START without asking the classifier)
StartActionsUnguarded(e) == <<Action(e.encountering_task_id, START, e.time)>>
StartActions(e) ==
    IF is_update_task_start_ts_event(e)
    THEN <<Action(get_task_entered(e), START, e.time)>> ELSE <<>>
CompleteActions(e) ==
    IF is_task_complete_event(e)
    THEN <<Action(get_task_completed(e), END, e.time)>> ELSE <<>>
\* (SyncActionsUniqueId attributes the action to the task the event names
\* by unique id, not to the encountering task)
SyncActionsUniqueId(e) ==
    IF is_task_suspend_event(e)
    THEN <<Action(e.unique_id, SUSPEND, e.time)>>
    ELSE IF is_task_resume_event(e)
    THEN <<Action(e.unique_id, RESUME, e.time)>> ELSE <<>>
SyncActions(e) ==
    IF is_task_suspend_event(e)
    THEN <<Action(e.encountering_task_id, SUSPEND, e.time)>>
    ELSE IF is_task_resume_event(e)
    THEN <<Action(e.encountering_task_id, RESUME, e.time)>> ELSE <<>>

TaskMetadata(e) ==
    IF is_task_register_event(e)
    THEN LET task == get_task_registered_data(e)
             parent_id == IF task.parent_id # NullTaskID THEN task.parent_id ELSE None
         IN <<[task |-> task.id, parent |-> parent_id, label |-> task.task_label]>>
    ELSE <<>>
\* (SuspendMetadataChildren records every suspension as a wait for children)
SuspendMetadataChildren(e) ==
    IF is_task_suspend_event(e)
    THEN <<[task |-> e.encountering_task_id, time |-> e.time, sync_descendants |-> FALSE]>>
    ELSE <<>>
SuspendMetadata(e) ==
    IF is_task_suspend_event(e)
    THEN <<[task |-> e.encountering_task_id, time |-> e.time,
            sync_descendants |-> (e.sync_descendant_tasks = "descendants")]>>
    ELSE <<>>

\* the callbacks one event invokes, in program order (CallsOfCreateFirst
\* registers the CREATE action before the metadata)
Call(cbk, k, arg) == [cbk |-> cbk, event |-> k, arg |-> arg]
CallsOfCreateFirst(e, k) ==
    LET to(cbk, args) == [i \in 1..Len(args) |-> Call(cbk, k, args[i])]
    IN to("add_task_action_cbk", RegisterActions(e))
       \o to("add_task_metadata_cbk", TaskMetadata(e))
       \o to("add_task_action_cbk", StartActions(e))
       \o to("add_task_action_cbk", CompleteActions(e))
       \o to("add_task_action_cbk", SyncActions(e))
       \o to("add_task_suspend_meta_cbk", SuspendMetadata(e))
CallsOf(e, k) ==
    LET to(cbk, args) == [i \in 1..Len(args) |-> Call(cbk, k, args[i])]
    IN to("add_task_metadata_cbk", TaskMetadata(e))
       \o to("add_task_action_cbk", RegisterActions(e))
       \o to("add_task_action_cbk", StartActions(e))
       \o to("add_task_action_cbk", CompleteActions(e))
       \o to("add_task_action_cbk", SyncActions(e))
       \o to("add_task_suspend_meta_cbk", SuspendMetadata(e))

\* num_chunks after the chunk update of event e (EventsAfter counts every
\* event)
EventsAfter(e) == num_chunks + 1
ChunksAfter(e) == IF event_completes_chunk(e) THEN num_chunks + 1 ELSE num_chunks

\* one iteration of the loop, on event e
TaskBuilder(e) ==
    /\ num_chunks' = ChunksAfter(e)
    /\ task_meta' = task_meta \o TaskMetadata(e)
    /\ task_actions' = task_actions \o RegisterActions(e) \o StartActions(e)
                          \o CompleteActions(e) \o SyncActions(e)
    /\ suspend_meta' = suspend_meta \o SuspendMetadata(e)
    /\ calls' = calls \o CallsOf(e, total_events + 1)
    /\ events_iter' = Append(events_iter, e)
    /\ total_events' = total_events + 1

ProcessEvent ==
    /\ retval = NotReturned
    /\ total_events < MaxEvents
    /\ \E e \in NextEvents :
          /\ TaskBuilder(e)
          /\ traced' = TracedAfter(e)
          /\ current_task' = CurrentAfter(e)
    /\ queries' = <<>>
    /\ UNCHANGED <<event_model, malformed, retval, simvars, dbvars, finvars>>

\* the loop on an event of a damaged trace: the same iteration
ProcessMalformedEvent ==
    /\ retval = NotReturned
    /\ total_events < MaxEvents
    /\ malformed < MaxMalformed
    /\ \E e \in MalformedEvents :
          /\ TaskBuilder(e)
          /\ malformed' = malformed + 1
    /\ queries' = <<>>
    /\ UNCHANGED <<event_model, traced, current_task, retval, simvars, dbvars, finvars>>

\* events_iter is exhausted: the loop ends and generate_chunks returns
GenerateChunksReturn ==
    /\ retval = NotReturned
    /\ retval' = num_chunks
    /\ UNCHANGED <<event_model, events_iter, total_events, task_meta, task_actions,
                   suspend_meta, calls, traced, current_task, malformed, num_chunks,
                   queries, simvars, dbvars, finvars>>

\* every classifier predicate and field extractor of the event model,
\* evaluated on e (an extractor only where its predicate holds); the event
\* model keeps no state that a query reads or writes
\* (QueryResultsOnce answers each question about an event once only)
QueryResultsOnce(e) ==
    [is_task_register_event |-> queries = <<>> /\ is_task_register_event(e),
     is_update_task_start_ts_event |-> queries = <<>> /\ is_update_task_start_ts_event(e),
     is_task_complete_event |-> queries = <<>> /\ is_task_complete_event(e),
     is_task_suspend_event |-> queries = <<>> /\ is_task_suspend_event(e),
     is_task_resume_event |-> queries = <<>> /\ is_task_resume_event(e),
     event_completes_chunk |-> queries = <<>> /\ event_completes_chunk(e),
     get_task_entered |->
        IF is_update_task_start_ts_event(e) THEN get_task_entered(e) ELSE None,
     get_task_completed |->
        IF is_task_complete_event(e) THEN get_task_completed(e) ELSE None,
     get_task_registered_data |->
        IF is_task_register_event(e) THEN get_task_registered_data(e).id ELSE None]
QueryResults(e) ==
    [is_task_register_event |-> is_task_register_event(e),
     is_update_task_start_ts_event |-> is_update_task_start_ts_event(e),
     is_task_complete_event |-> is_task_complete_event(e),
     is_task_suspend_event |-> is_task_suspend_event(e),
     is_task_resume_event |-> is_task_resume_event(e),
     event_completes_chunk |-> event_completes_chunk(e),
     get_task_entered |->
        IF is_update_task_start_ts_event(e) THEN get_task_entered(e) ELSE None,
     get_task_completed |->
        IF is_task_complete_event(e) THEN get_task_completed(e) ELSE None,
     get_task_registered_data |->
        IF is_task_register_event(e) THEN get_task_registered_data(e).id ELSE None]

\* the event model is asked again about the event the loop is at
ClassifyAgain ==
    /\ retval = NotReturned
    /\ events_iter # <<>>
    /\ Len(queries) < MaxQueries
    /\ queries' = Append(queries, QueryResults(events_iter[Len(events_iter)]))
    /\ UNCHANGED <<event_model, events_iter, total_events, task_meta, task_actions,
                   suspend_meta, calls, traced, current_task, malformed, num_chunks,
                   retval, simvars, dbvars, finvars>>

\* no stored trace is simulated while a trace is ingested
SchedulerIdle ==
    /\ task_relation = <<>>
    /\ task_history = <<>>
    /\ task_suspend_meta = <<>>
    /\ task_children = <<>>
    /\ InitScheduler

InitDriver ==
    /\ event_model \in {"OMP", "TASKGRAPH"}
    /\ total_events = 0
    /\ task_meta = <<>>
    /\ task_actions = <<>>
    /\ suspend_meta = <<>>
    /\ calls = <<>>
    /\ events_iter = <<>>
    /\ malformed = 0
    /\ num_chunks = 0
    /\ retval = NotReturned
    /\ queries = <<>>
    /\ traced = [t \in DriverTasks |-> [st |-> "none", explicit |-> FALSE]]
    /\ current_task = NullTaskID
    /\ SchedulerIdle
    /\ PersistenceIdle
    /\ FiniteIdle

NextDriver == ProcessEvent \/ GenerateChunksReturn

SpecDriver == InitDriver /\ [][NextDriver]_vars

\* the driver with an event model that is asked about an event repeatedly
NextClassify == ProcessEvent \/ ClassifyAgain

SpecClassify == InitDriver /\ [][NextClassify]_vars

\* the driver on traces that may be damaged
NextDamaged == ProcessEvent \/ ProcessMalformedEvent \/ GenerateChunksReturn

SpecDamaged == InitDriver /\ [][NextDamaged]_vars

-----------------------------------------------------------------------------
(* The actions of one task, in emission order *)

ActionsOf(log, t) == SelectSeq(log, LAMBDA a : a.task = t)

IsLifecyclePrefix(s) ==
    /\ Len(s) >= 1 => s[1].action = CREATE
    /\ Len(s) >= 2 => s[2].action = START
    /\ \A i \in 3..Len(s) :
          \/ s[i].action = SUSPEND /\ s[i - 1].action \in {START, RESUME}
          \/ s[i].action = RESUME /\ s[i - 1].action = SUSPEND
          \/ s[i].action = END /\ s[i - 1].action \in {START, RESUME}

\* C1: after any event stream, under either event model, the actions emitted
\* for every task form a prefix of CREATE, START, (SUSPEND, RESUME)*, END:
\* CREATE first, END last, no two consecutive actions of the same kind.
C1_OrderingInvariant ==
    \A t \in DriverTasks : IsLifecyclePrefix(ActionsOf(task_actions, t))

-----------------------------------------------------------------------------
(* Properties of the callbacks of one event *)

\* the callbacks the k-th event invoked, in order
CallsAt(k) == SelectSeq(calls, LAMBDA c : c.event = k)
ActionCallsAt(k) == SelectSeq(CallsAt(k), LAMBDA c : c.cbk = "add_task_action_cbk")
Lifecycle == {START, END, SUSPEND, RESUME}

\* C13: a task-register event first sends the metadata record (id, parent or
\* None when the parent is the null task id, label), next the CREATE action
\* of that task, and only then any START, END, SUSPEND or RESUME action.
C13_RegisterFirst ==
    \A k \in 1..Len(events_iter) :
        LET e == events_iter[k]
            cs == CallsAt(k)
            task == get_task_registered_data(e)
        IN is_task_register_event(e) =>
              /\ Len(cs) >= 2
              /\ cs[1].cbk = "add_task_metadata_cbk"
              /\ cs[1].arg.task = task.id
              /\ cs[1].arg.label = e.task_label
              /\ IF task.parent_id = NullTaskID
                 THEN cs[1].arg.parent = None
                 ELSE cs[1].arg.parent = task.parent_id
              /\ cs[2] = Call("add_task_action_cbk", k, Action(task.id, CREATE, e.time))
              /\ \A i \in 3..Len(cs) :
                    /\ cs[i].cbk # "add_task_metadata_cbk"
                    /\ cs[i].cbk = "add_task_action_cbk" => cs[i].arg.action \in Lifecycle

C13_Witness ==
    \E k \in 1..Len(events_iter) :
        /\ is_task_register_event(events_iter[k])
        /\ Len(CallsAt(k)) = 3
        /\ CallsAt(k)[1].arg.parent = None
        /\ CallsAt(k)[3].arg.action = START
        /\ \E j \in 1..Len(events_iter) :
              /\ is_task_register_event(events_iter[j])
              /\ CallsAt(j)[1].arg.parent \in DriverTasks

\* C14: under either event model one event sends at most one action among
\* START, END, SUSPEND and RESUME, and at most one CREATE.
C14_OneActionPerEvent ==
    \A k \in 1..Len(events_iter) :
        /\ Len(SelectSeq(ActionCallsAt(k), LAMBDA c : c.arg.action \in Lifecycle)) <= 1
        /\ Len(SelectSeq(ActionCallsAt(k), LAMBDA c : c.arg.action = CREATE)) <= 1

C14_Witness ==
    /\ \E k \in 1..Len(events_iter) :
          /\ events_iter[k].event_type = "task_switch"
          /\ events_iter[k].prior_task_status = "complete"
          /\ Len(ActionCallsAt(k)) = 1
    /\ \E k \in 1..Len(events_iter) :
          /\ events_iter[k].event_type = "task_enter"
          /\ Len(ActionCallsAt(k)) = 2

SuspendMetaCallsAt(k) == SelectSeq(CallsAt(k), LAMBDA c : c.cbk = "add_task_suspend_meta_cbk")
SuspendCallsAt(k) == SelectSeq(ActionCallsAt(k), LAMBDA c : c.arg.action = SUSPEND)

\* C15: an event sends a suspend-metadata record exactly when it sends a
\* SUSPEND action: one record per SUSPEND, with the same task id and
\* timestamp and the sync mode of the event; none for any other event.
C15_SuspendMetadata ==
    \A k \in 1..Len(events_iter) :
        /\ Len(SuspendMetaCallsAt(k)) = Len(SuspendCallsAt(k))
        /\ Len(SuspendCallsAt(k)) <= 1
        /\ Len(SuspendCallsAt(k)) = 1 =>
              LET a == SuspendCallsAt(k)[1].arg
                  m == SuspendMetaCallsAt(k)[1].arg
              IN /\ m.task = a.task
                 /\ m.time = a.time
                 /\ m.sync_descendants = (events_iter[k].sync_descendant_tasks = "descendants")

C15_Witness ==
    /\ \E k \in 1..Len(events_iter) :
          Len(SuspendCallsAt(k)) = 1 /\ SuspendMetaCallsAt(k)[1].arg.sync_descendants
    /\ \E k \in 1..Len(events_iter) :
          Len(SuspendCallsAt(k)) = 1 /\ ~SuspendMetaCallsAt(k)[1].arg.sync_descendants
    /\ \E k \in 1..Len(events_iter) :
          Len(ActionCallsAt(k)) = 1 /\ Len(SuspendMetaCallsAt(k)) = 0

Registered(i) ==
    \E j \in 1..(i - 1) :
        /\ calls[j].cbk = "add_task_action_cbk"
        /\ calls[j].arg.action = CREATE
        /\ calls[j].arg.task = calls[i].arg.task

\* C16: no START, END, SUSPEND or RESUME action is sent for a task other
\* than the root for which no CREATE was sent before: the event that would
\* send one aborts the processing of the trace instead.
C16_UnregisteredAborts ==
    \A i \in 1..Len(calls) :
        (calls[i].cbk = "add_task_action_cbk" /\ calls[i].arg.action \in Lifecycle) =>
            (calls[i].arg.task = RootTask \/ Registered(i))

\* C17: no event extends the actions of a task that follow CREATE, START,
\* (SUSPEND, RESUME)*, END by an action that breaks this order: the event
\* that would do so aborts the processing of the trace instead.
C17_OrderingAborts ==
    [][\A t \in DriverTasks :
          IsLifecyclePrefix(ActionsOf(task_actions, t)) =>
              IsLifecyclePrefix(ActionsOf(task_actions', t))]_vars

\* C18: under the OMP event model a task-switch event whose prior task status
\* is complete sends an END action for the encountering task and a START or
\* RESUME action for the next task.
C18_SwitchComplete ==
    \A k \in 1..Len(events_iter) :
        LET e == events_iter[k]
            sent(task, actions) ==
                \E i \in 1..Len(ActionCallsAt(k)) :
                    /\ ActionCallsAt(k)[i].arg.task = task
                    /\ ActionCallsAt(k)[i].arg.action \in actions
        IN (/\ event_model = "OMP"
            /\ e.event_type = "task_switch"
            /\ e.prior_task_status = "complete") =>
               /\ sent(e.encountering_task_id, {END})
               /\ sent(e.next_task_id, {START, RESUME})

IsRootCreate(e) == event_model = "TASKGRAPH" /\ e.event_type = "task_create" /\ e.unique_id = 0

\* C19 (as stated): under the task-graph event model the task-create event
\* of the root task (unique id 0) sends no metadata record and no CREATE.
C19_RootExcluded ==
    \A k \in 1..Len(events_iter) : IsRootCreate(events_iter[k]) => CallsAt(k) = <<>>

\* C19 (amended): under the task-graph event model the task-create event of
\* the root task (unique id 0) is registered like every other task-create
\* event: it sends the metadata record of task 0, with parent None when the
\* encountering task is the null task id, and then the CREATE action of task 0.
C19_RootRegistered ==
    \A k \in 1..Len(events_iter) :
        LET e == events_iter[k]
            parent == IF e.encountering_task_id = NullTaskID
                      THEN None ELSE e.encountering_task_id
        IN IsRootCreate(e) =>
              CallsAt(k) =
                 <<Call("add_task_metadata_cbk", k,
                        [task |-> 0, parent |-> parent, label |-> e.task_label]),
                   Call("add_task_action_cbk", k, Action(0, CREATE, e.time))>>

C19_Witness ==
    /\ event_model = "TASKGRAPH"
    /\ \E k \in 1..Len(events_iter) :
          /\ IsRootCreate(events_iter[k])
          /\ Len(CallsAt(k)) = 2
          /\ CallsAt(k)[1].arg.parent = None
    /\ \E a \in Range(task_actions) : a.task # 0 /\ a.action = CREATE

\* C20: under the task-graph event model a sync-begin event sends exactly one
\* action, SUSPEND of its encountering task, and a sync-end event exactly
\* one action, RESUME of its encountering task.
C20_SyncEvents ==
    \A k \in 1..Len(events_iter) :
        LET e == events_iter[k]
            only(action) ==
                ActionCallsAt(k) =
                    <<Call("add_task_action_cbk", k,
                           Action(e.encountering_task_id, action, e.time))>>
        IN event_model = "TASKGRAPH" =>
              /\ e.event_type = "sync_begin" => only(SUSPEND)
              /\ e.event_type = "sync_end" => only(RESUME)

C20_Witness ==
    /\ event_model = "TASKGRAPH"
    /\ \E i, j \in 1..Len(events_iter) :
          /\ i < j
          /\ events_iter[i].event_type = "sync_begin"
          /\ events_iter[j].event_type = "sync_end"
          /\ events_iter[i].encountering_task_id = events_iter[j].encountering_task_id
          /\ \E k \in (i + 1)..(j - 1) :
                /\ events_iter[k].event_type = "task_enter"
                /\ events_iter[k].encountering_task_id # events_iter[i].encountering_task_id
          /\ Len(ActionCallsAt(i)) = 1 /\ Len(ActionCallsAt(j)) = 1

\* no register, start, complete, suspend or resume predicate holds for e
NoTaskAction(e) ==
    /\ ~is_task_register_event(e)
    /\ ~is_update_task_start_ts_event(e)
    /\ ~is_task_complete_event(e)
    /\ ~is_task_suspend_event(e)
    /\ ~is_task_resume_event(e)

\* C21: an event for which no register, start, complete, suspend or resume
\* predicate holds calls none of the three sinks and leaves everything sent
\* so far as it was.
C21_NoOpEvent ==
    [][(Len(events_iter') = Len(events_iter) + 1
        /\ NoTaskAction(events_iter'[Len(events_iter')])) =>
           /\ calls' = calls
           /\ task_meta' = task_meta
           /\ task_actions' = task_actions
           /\ suspend_meta' = suspend_meta]_vars

C21_Witness ==
    \E k \in 2..Len(events_iter) :
        /\ NoTaskAction(events_iter[k])
        /\ CallsAt(k) = <<>>
        /\ CallsAt(k - 1) # <<>>
        /\ k < Len(events_iter) /\ CallsAt(k + 1) # <<>>

\* the number of events so far that complete a chunk
RECURSIVE ChunksCompleted(_)
ChunksCompleted(k) ==
    IF k = 0 THEN 0
    ELSE ChunksCompleted(k - 1) + (IF event_completes_chunk(events_iter[k]) THEN 1 ELSE 0)

\* every event taken so far was handled once, in arrival order
ConsumedInOrder ==
    /\ total_events = Len(events_iter)
    /\ \A k \in 1..Len(events_iter) : events_iter[k].time = k
    /\ \A i \in 1..Len(calls) :
          /\ calls[i].event \in 1..Len(events_iter)
          /\ i > 1 => calls[i - 1].event <= calls[i].event

\* C22 (as stated): the driver handles every event once, in arrival order,
\* and returns the number of events it processed.
C22_ReturnsEventCount ==
    /\ ConsumedInOrder
    /\ retval # NotReturned => retval = total_events

\* C22 (amended): the driver handles every event once, in arrival order, and
\* counts them in total_events; the value it returns is num_chunks, the
\* number of events that complete a chunk.
C22_ReturnsChunkCount ==
    /\ ConsumedInOrder
    /\ num_chunks = ChunksCompleted(Len(events_iter))
    /\ retval # NotReturned => retval = ChunksCompleted(Len(events_iter))

C22_Witness ==
    /\ retval # NotReturned
    /\ retval > 0
    /\ retval < total_events

\* the answers the loop got for the k-th event, read off what it did with it
SentAt(k, action) == SelectSeq(ActionCallsAt(k), LAMBDA c : c.arg.action = action)
LoopAnswers(k) ==
    LET task(action) == IF SentAt(k, action) = <<>> THEN None
                        ELSE SentAt(k, action)[1].arg.task
    IN [is_task_register_event |-> SentAt(k, CREATE) # <<>>,
        is_update_task_start_ts_event |-> SentAt(k, START) # <<>>,
        is_task_complete_event |-> SentAt(k, END) # <<>>,
        is_task_suspend_event |-> SentAt(k, SUSPEND) # <<>>,
        is_task_resume_event |-> SentAt(k, RESUME) # <<>>,
        get_task_entered |-> task(START),
        get_task_completed |-> task(END),
        get_task_registered_data |-> task(CREATE)]

-----------------------------------------------------------------------------
(* The persistence layer: buffered writers inside a context manager *)

Bufsize == 2
MaxRecords == 3

Contexts == {"WriteConnection", "WriteSimConnection", "closing_all", "WriterBase"}
Inserted ==
    LET rows(t) == Len(buffer[t]) + Len(committed[t])
    IN rows("task_history") + rows("task_suspend_meta") + rows("critical_task")

\* the resources each context enters, in the order it enters them
Things(ctx) ==
    CASE ctx = "closing_all" ->
            <<"string_writer", "source_writer", "chunk_builder",
              "task_meta_writer", "task_action_writer">>
      [] ctx = "WriteConnection" ->
            <<"string_writer", "source_writer", "task_meta_writer", "task_action_writer">>
      [] ctx = "WriteSimConnection" -> <<"action_writer", "crit_task_writer">>
      [] OTHER -> <<"writer">>

\* ExitStack.close: the contexts entered are left last-in, first-out
ListedOrder(things) == things
CloseOrder(things) == [i \in 1..Len(things) |-> things[Len(things) + 1 - i]]

\* BufferedDBWriter._flush on every writer of the context, as each is closed
FlushAll ==
    /\ committed' = [t \in Tables |-> committed[t] \o buffer[t]]
    /\ buffer' = [t \in Tables |-> <<>>]
    /\ closed' = closed \o CloseOrder(Things(context))
    /\ UNCHANGED inserted

\* insert: the buffer is written out once it holds bufsize rows
BufferOverfull(filled) == Len(filled) > Bufsize
BufferFull(filled) == Len(filled) >= Bufsize

\* BufferedDBWriter.insert, called through a sink of the context
SinkInsert ==
    /\ body = "running"
    /\ Inserted < MaxRecords
    /\ \E t \in Tables :
          LET row == Inserted + 1
              filled == Append(buffer[t], row)
          IN /\ inserted' = [inserted EXCEPT ![t] = Append(inserted[t], row)]
             /\ IF BufferFull(filled)
                THEN /\ committed' = [committed EXCEPT ![t] = committed[t] \o filled]
                     /\ buffer' = [buffer EXCEPT ![t] = <<>>]
                ELSE /\ buffer' = [buffer EXCEPT ![t] = filled]
                     /\ committed' = committed
    /\ UNCHANGED <<context, body, caller, closed, simvars, drvvars, finvars>>

\* the enclosed code (lifecycle extraction or the simulation) ends
BodyFinishes ==
    /\ body = "running"
    /\ body' = "finished"
    /\ UNCHANGED <<context, caller, buffer, committed, inserted, closed, simvars, drvvars, finvars>>

\* the enclosed code, a sink or the store raises
BodyRaises ==
    /\ body = "running"
    /\ body' = "raised"
    /\ UNCHANGED <<context, caller, buffer, committed, inserted, closed, simvars, drvvars, finvars>>

\* __exit__ of the connections: True to suppress, False to let it propagate
ConnectionExit ==
    /\ context \in {"WriteConnection", "WriteSimConnection"}
    /\ caller = "inside" /\ body # "running"
    /\ IF body = "finished"
       THEN FlushAll /\ caller' = "returned"
       ELSE UNCHANGED <<buffer, committed, inserted, closed>> /\ caller' = "raised"
    /\ UNCHANGED <<context, body, simvars, drvvars, finvars>>

\* closing_all: try / finally around the enclosed code
ClosingAllExit ==
    /\ context = "closing_all"
    /\ caller = "inside" /\ body # "running"
    /\ FlushAll
    /\ caller' = IF body = "finished" THEN "returned" ELSE "raised"
    /\ UNCHANGED <<context, body, simvars, drvvars, finvars>>

\* the value WriterBase.__exit__ returns: true suppresses the exception
WriterExitReturns(ex_type) == ex_type # "None"

\* WriterBase.__exit__
WriterExit ==
    /\ context = "WriterBase"
    /\ caller = "inside" /\ body # "running"
    /\ FlushAll
    /\ LET ex_type == IF body = "raised" THEN "Exception" ELSE "None"
       IN caller' = IF ex_type # "None" /\ ~WriterExitReturns(ex_type)
                    THEN "raised" ELSE "returned"
    /\ UNCHANGED <<context, body, simvars, drvvars, finvars>>

InitPersistence ==
    /\ context \in Contexts
    /\ body = "running"
    /\ caller = "inside"
    /\ buffer = [t \in Tables |-> <<>>]
    /\ committed = [t \in Tables |-> <<>>]
    /\ inserted = [t \in Tables |-> <<>>]
    /\ closed = <<>>
    /\ SchedulerIdle
    /\ DriverIdle
    /\ FiniteIdle

NextPersistence ==
    \/ SinkInsert
    \/ BodyFinishes
    \/ BodyRaises
    \/ ConnectionExit
    \/ ClosingAllExit
    \/ WriterExit

SpecPersistence == InitPersistence /\ [][NextPersistence]_vars

\* C24: when the enclosed extraction or simulation aborts with an error, no
\* row produced before the abort is committed to the store.
C24_NoPartialSuccess ==
    body = "raised" => \A t \in Tables : committed[t] = <<>>

\* C25: an exception raised inside a writer or connection context reaches
\* the caller of the context: no context manager suppresses it.
C25_ExceptionPropagates ==
    (body = "raised" /\ caller # "inside") => caller = "raised"

-----------------------------------------------------------------------------
(* The simulator, continued: aborts inside branch_task *)

\* the native creation offset of the child branch_task is about to descend into
ChildOffset == get_task(Top.children[Top.ci]).create_ts - CurState(Top).start_ts

\* C29: branch_task aborts on the creation offset of a child only when the
\* offset is negative; a child with offset zero or more is descended into.
C29_AbortsOnlyOnNegativeOffset ==
    err = "AssertionError: child_crt_dt" => ChildOffset < 0

\* a CHILDREN barrier without pending children, or a DESCENDANTS barrier
\* before any descendant has been simulated
EmptyBarrier ==
    \/ BarrierMode = CHILDREN /\ Top.children_pending = <<>>
    \/ BarrierMode = DESCENDANTS /\ Top.descendants_timing_data = <<>>

\* C30: a barrier of a branch task with nothing to wait for resolves with
\* zero duration and the simulation continues without an error.
C30_EmptyBarrierResolves ==
    [][(AtBranchBarrier /\ EmptyBarrier)
        => (/\ err' = ""
            /\ Len(stack') = Len(stack)
            /\ stack'[Len(stack)].clock = Top.clock
            /\ stack'[Len(stack)].si = Top.si + 1)]_vars

-----------------------------------------------------------------------------
(* The simulator, continued: where branch_task places the children *)

\* the tasks branch_task descends into: their parent is neither the root nor
\* a phase
NestedTasks ==
    {t \in TaskIDs : task_relation[t] # RootTask /\ task_relation[task_relation[t]] # RootTask}

ResumesOf(p) == SelectSeq(task_history[p], LAMBDA x : x.action = RESUME)
EmittedResumesOf(p) == SelectSeq(action_log, LAMBDA x : x.task = p /\ x.action = RESUME)

\* the active interval of its parent in which task c was created
IntervalOf(c) ==
    LET r == ResumesOf(task_relation[c])
    IN 1 + Cardinality({i \in 1..Len(r) : r[i].time <= HistoryTime(c, CREATE)})

\* the native start of the k-th active interval of p, and the simulated clock
\* of p at the start of that interval
NativeIntervalStart(p, k) == IF k = 1 THEN HistoryTime(p, START) ELSE ResumesOf(p)[k - 1].time
SimIntervalStart(p, k) == IF k = 1 THEN SimStart(p) ELSE EmittedResumesOf(p)[k - 1].time

\* the idealized duration of a task from its own subtree alone
OwnDuration(c) ==
    IF IsLeaf(c) THEN NativeRunTime(c) ELSE NativeActiveTime(c) + EmittedSuspendedTime(c)

\* C26: a child created during an active interval of a branch task starts at
\* the parent's simulated clock at the start of that interval plus the child's
\* native creation offset into the interval, and ends after its own duration:
\* neither depends on a sibling created in the same interval.
C26_ChildStartOffset ==
    \A c \in NestedTasks :
        LET p == task_relation[c]
            k == IntervalOf(c)
        IN /\ Emitted(c, START) =>
                SimStart(c) = SimIntervalStart(p, k)
                                + (HistoryTime(c, CREATE) - NativeIntervalStart(p, k))
           /\ Emitted(c, END) => SimEnd(c) = SimStart(c) + OwnDuration(c)

\* two children of one active interval of a branch task overlap in simulated
\* time: the later one has started before the earlier one ends
C26_Witness ==
    \E a, b \in NestedTasks :
        /\ a # b /\ task_relation[a] = task_relation[b] /\ IntervalOf(a) = IntervalOf(b)
        /\ Emitted(a, END) /\ Emitted(b, END)
        /\ SimStart(a) < SimStart(b)
        /\ SimStart(b) < SimEnd(a)

-----------------------------------------------------------------------------
(* The simulator, continued: the simulated actions of one task *)

\* the tasks descend() is called for: every task below a phase
DescendedTasks == {t \in TaskIDs : task_relation[t] # RootTask}

\* the positions of the action sink's log that belong to task t, in order
LogIndexOf(t) ==
    LET idx == {i \in 1..Len(action_log) : action_log[i].task = t}
    IN SortSeq(SetToSeq(idx), LAMBDA x, y : x < y)

SuspendsOf(t) == SelectSeq(task_history[t], LAMBDA x : x.action = SUSPEND)

\* what barrier j of task t, reached at simulated time now with the log at
\* position at, has to wait for: the latest simulated end of the synchronised
\* tasks, or now when there is nothing to wait for
ResolvedResume(t, j, now, at) ==
    LET bts == SuspendsOf(t)[j].time
        mode == get_task_suspend_meta(t, bts)
        ended == {d \in DescendantsOf(t) :
                     \E i \in 1..(at - 1) :
                        action_log[i].task = d /\ action_log[i].action = END}
        synced == IF mode = CHILDREN THEN SyncSet(t, bts)
                  ELSE IF mode = DESCENDANTS THEN ended ELSE {}
    IN IF synced = {} THEN now ELSE Max(now, MaxOf({SimEnd(d) : d \in synced}))

\* C27: the simulated actions of a descended task are, in emission order,
\* CREATE, START, one SUSPEND/RESUME pair per suspend interval, then END, with
\* non-decreasing timestamps; each RESUME carries the time of its SUSPEND plus
\* the resolved barrier duration, and nothing follows the END.
C27_EmittedSequence ==
    \A t \in DescendedTasks :
        LET ix == LogIndexOf(t)
            n == Len(ix)
            a == [i \in 1..n |-> action_log[ix[i]]]
        IN /\ n >= 1 => a[1].action = CREATE
           /\ n >= 2 => a[2].action = START
           /\ \A i \in 3..n :
                 /\ i % 2 = 1 => a[i].action \in {SUSPEND, END}
                 /\ i % 2 = 0 => a[i].action = RESUME
                 /\ a[i].action = END =>
                       /\ i = n
                       /\ (i - 3) \div 2 = Len(SuspendsOf(t))
                 /\ a[i].action = RESUME =>
                       a[i].time = ResolvedResume(t, (i - 2) \div 2, a[i - 1].time, ix[i - 1])
           /\ \A i \in 1..(n - 1) : a[i].time <= a[i + 1].time

\* a task has ended after a barrier that made it wait
C27_Witness ==
    \E t \in DescendedTasks :
        /\ Emitted(t, END)
        /\ \E i \in 2..Len(action_log) :
              /\ action_log[i].task = t /\ action_log[i].action = RESUME
              /\ action_log[i - 1].task = t /\ action_log[i - 1].action = SUSPEND
              /\ action_log[i].time > action_log[i - 1].time

-----------------------------------------------------------------------------
(* The simulator, continued: the timestamps of one task *)

\* C28: for a descended task the simulated CREATE and START carry the same
\* timestamp and the simulated END carries START plus the task's idealized
\* duration; for a branch task that is the value of its running clock once
\* its last interval has been processed.
C28_TaskTimestamps ==
    /\ \A t \in DescendedTasks :
          /\ Emitted(t, START) => EmittedTime(t, CREATE) = SimStart(t)
          /\ Emitted(t, END) => SimEnd(t) - SimStart(t) = OwnDuration(t)
    /\ AtReturn("branch") =>
          /\ Top.clock = SimStart(Top.task) + OwnDuration(Top.task)
          /\ Top.clock = Top.start + BranchDuration(Top)

\* a branch task that waited at a barrier has processed its last interval
C28_Witness == AtReturn("branch") /\ Top.suspended_ideal_dt > 0 /\ ChildrenVisitedOk(Top)

-----------------------------------------------------------------------------
(* The simulator, continued: what a branch task keeps across its barriers *)

TimedTasks(d) == {d[i].task : i \in 1..Len(d)}

\* C31: in branch_task the pending children are emptied by every CHILDREN and
\* DESCENDANTS barrier and kept by a YIELD, so that at a barrier they are the
\* children created since the previous CHILDREN/DESCENDANTS barrier; the
\* descendant timing map is never cleared: it holds every descendant that
\* has been simulated.
C31_PendingChildren ==
    /\ AtBranchBarrier => Range(Top.children_pending) = SyncSet(Top.task, BarrierTs)
    /\ (Running /\ Top.kind = "branch") =>
          TimedTasks(Top.descendants_timing_data) = SimulatedDescendants(Top.task)

\* a CHILDREN barrier is reached with a pending child that was created before
\* an earlier YIELD of the task, after descendants were simulated
C31_Witness ==
    /\ AtBranchBarrier /\ BarrierMode = CHILDREN
    /\ \E c \in Range(Top.children_pending) :
          \E m \in task_suspend_meta[Top.task] :
             /\ m.sync_mode = YIELD
             /\ HistoryTime(c, CREATE) < m.time /\ m.time < BarrierTs

-----------------------------------------------------------------------------
(* The simulator, continued: the numbering of the critical-task records *)

\* C32: the critical-task records emitted for a task carry the sequence
\* numbers 0, 1, 2, ... in emission order, so that no two records of a run
\* agree in task and sequence number.
C32_SequenceNumbers ==
    /\ \A t \in TaskIDs :
          \A i \in 1..Len(RecordsOf(t)) : RecordsOf(t)[i].sequence = i - 1
    /\ \A i, j \in 1..Len(crit_log) :
          (crit_log[i].task = crit_log[j].task /\ crit_log[i].sequence = crit_log[j].sequence)
             => i = j

\* a task has two critical-task records
C32_Witness ==
    \E t \in TaskIDs : Len(RecordsOf(t)) >= 2

-----------------------------------------------------------------------------
(* The simulator, continued: the clock of a phase *)

\* the latest simulated end the barrier that closes the active interval of
\* the phase on top of the stack waits for; the clock itself when the barrier
\* waits for nothing
PhaseSyncEnd ==
    LET mode == BarrierMode
        synced == IF mode = CHILDREN THEN SyncSet(Top.task, BarrierTs)
                  ELSE IF mode = DESCENDANTS THEN SimulatedDescendants(Top.task) ELSE {}
    IN IF synced = {} THEN Top.clock ELSE MaxOf({SimEnd(d) : d \in synced})

\* C33: an active interval of a phase adds no duration of its own to the phase
\* clock: its children start at the clock held when the interval is
\* processed, and the clock changes only at the closing barrier of the
\* interval, to max(clock, latest synchronized end).
C33_PhaseActiveInterval ==
    [][/\ (AtChild /\ Top.kind = "phase" /\ pc' = "run")
          => /\ Len(action_log') >= Len(action_log) + 2
             /\ action_log'[Len(action_log) + 2].time = Top.clock
       /\ (AfterChildren("phase") /\ pc' = "run")
          => stack'[Len(stack)].clock =
                IF CurState(Top).action_end = SUSPEND
                THEN Max(Top.clock, PhaseSyncEnd) ELSE Top.clock]_vars

-----------------------------------------------------------------------------
(* The simulator made with an explicit initial task *)

\* the scheduler is made for the subtree of a task that has children, on the
\* stored traces whose child counts are right
InitialTasks == {None} \cup TaskIDs

InitInitialTask ==
    /\ InitStore
    /\ \A t \in TaskIDs : task_children[t] = Cardinality(get_children_of(t))
    /\ \E initial_task \in InitialTasks :
          /\ initial_task # None => get_children_of(initial_task) # {}
          /\ Constructed(initial_task)
    /\ DriverIdle
    /\ PersistenceIdle
    /\ FiniteIdle

SpecInitialTask == InitInitialTask /\ [][Next]_vars

\* C35: a scheduler made with an explicit initial_task simulates the children
\* of that task as the phases, not the children of the root task.
C35_InitialTaskPhases ==
    /\ \A i \in 1..Len(phase_tasks) : task_relation[phase_tasks[i]] = root_task
    /\ stack # <<>> => task_relation[stack[1].task] = root_task
    /\ \A i \in 1..Len(phase_log) : task_relation[phase_log[i].phase] = root_task

-----------------------------------------------------------------------------
(* The simulator, continued: how an active interval of a phase may end *)

\* the active states of phase p that simulate_phase has gone through
\* without aborting, up to state n
ActiveStatesTo(p, n) ==
    {i \in 1..n : is_active(get_task_scheduling_states(p)[i])}

WellEnded(state) ==
    \/ state.action_end = SUSPEND
    \/ /\ state.action_end = END
       /\ get_children_created_between(state.task, state.start_ts, state.end_ts) = <<>>

\* C34: an active interval of a phase ends in SUSPEND, or in END with no
\* child created during it; any other end aborts the simulation with an
\* error, and no end time is returned for the phase.
C34_PhaseIntervalEnd ==
    /\ \A i \in 1..Len(phase_log) :
          LET p == phase_log[i].phase
              st == get_task_scheduling_states(p)
          IN \A k \in ActiveStatesTo(p, Len(st)) : WellEnded(st[k])
    /\ (pc = "run" /\ stack # <<>>) =>
          \A k \in ActiveStatesTo(stack[1].task, stack[1].si - 1) :
             WellEnded(States(stack[1])[k])
    /\ err = "AssertionError: unsynchronised children" =>
          /\ CurState(Top).action_end = END /\ ~WellEnded(CurState(Top))
          /\ \A i \in 1..Len(phase_log) : phase_log[i].phase # Top.task
    /\ err = "RuntimeError: invalid end to active state" =>
          /\ CurState(Top).action_end \notin {SUSPEND, END}
          /\ \A i \in 1..Len(phase_log) : phase_log[i].phase # Top.task

\* the run was aborted at an active interval of a phase that ended in END
\* after creating children
C34_Witness ==
    /\ pc = "error" /\ err = "AssertionError: unsynchronised children"
    /\ Top.kind = "phase" /\ Top.children # <<>>

-----------------------------------------------------------------------------
(* The finite-resource scheduler: TaskPool and TaskScheduler.step *)

MaxPoolTask == 3
MaxTSPs == 3

\* the tasks of the store: task 0 is the root task, the parent of task t is
\* task (t - 1) \div 2
PoolTasks == 0..MaxPoolTask
parent_of(t) == (t - 1) \div 2
children_of(t) == {c \in PoolTasks \ {0} : parent_of(c) = t}
root_tasks == {0}
\* the tasks a pool may be given as initial_tasks
PoolInitial == {0, 1, 2}

TSP_CREATE == "CREATE"
TSP_SUSPEND == "SUSPEND"
TSP_COMPLETE == "COMPLETE"
TspTimes == {1, 2}

\* (TSP.CREATE, time, thread, task, child_task), (TSP.SUSPEND, time, thread,
\* task) and (TSP.COMPLETE, time, thread, task, parent_task); other is the
\* child of a CREATE and the parent of a COMPLETE
TSP(mode, time, task, other) == [mode |-> mode, time |-> time, task |-> task, other |-> other]

TaskSchedulingPoints ==
    {TSP(TSP_CREATE, ts, parent_of(c), c) : ts \in TspTimes, c \in PoolTasks \ {0}}
    \cup {TSP(TSP_SUSPEND, ts, t, None) : ts \in TspTimes, t \in PoolTasks}
    \cup {TSP(TSP_COMPLETE, ts, t, parent_of(t)) : ts \in TspTimes, t \in PoolTasks \ {0}}

\* sorted(..., key=lambda tsp: tsp[1]): a stable sort by time
RECURSIVE InsertByTime(_, _)
InsertByTime(sorted, tsp) ==
    IF sorted = <<>> THEN <<tsp>>
    ELSE IF sorted[Len(sorted)].time <= tsp.time THEN Append(sorted, tsp)
    ELSE Append(InsertByTime(SubSeq(sorted, 1, Len(sorted) - 1), tsp), sorted[Len(sorted)])
RECURSIVE SortedByTime(_)
SortedByTime(q) ==
    IF q = <<>> THEN <<>>
    ELSE InsertByTime(SortedByTime(SubSeq(q, 1, Len(q) - 1)), q[Len(q)])

Waiting == DOMAIN waiting_tasks

\* the condition the pool asserts to be false before it adds a task:
\* task in self._ready_tasks or task in self._waiting_tasks
NeverKnown(task) == FALSE
Known(task) == task \in ready_tasks \/ task \in Waiting

\* dict operations on _waiting_tasks
WithoutKey(w, k) == [t \in DOMAIN w \ {k} |-> w[t]]
WithKey(w, k, v) == [t \in DOMAIN w \cup {k} |-> IF t = k THEN v ELSE w[t]]

count_outstanding_children(task) ==
    Cardinality({child \in children_of(task) :
                    \/ child \in ready_tasks
                    \/ child \in Waiting
                    \/ child \in running_tasks})

\* the children of task that entered the pool and have not completed
CompletedTasks == {pool_log[i].task : i \in {k \in 1..Len(pool_log) : pool_log[k].what = TSP_COMPLETE}}
Outstanding(task) == (children_of(task) \cap created_tasks) \ CompletedTasks

\* moved: the tasks the step added to the ready set
Logged(tsp, count, moved) ==
    Append(pool_log, [what |-> tsp.mode, task |-> tsp.task, other |-> tsp.other, count |-> count,
                      outstanding |-> Cardinality(Outstanding(tsp.task)), moved |-> moved])

PoolRaise(e) ==
    /\ pool_err' = e
    /\ UNCHANGED <<ready_tasks, waiting_tasks, running_tasks, created_tasks, scheduled_tasks,
                   pool_log>>

\* step(), lines 343-351, with TaskPool.task_created
StepCreate(tsp) ==
    IF Known(tsp.other)
    THEN PoolRaise("AssertionError")
    ELSE /\ ready_tasks' = ready_tasks \cup {tsp.other}
         /\ created_tasks' = created_tasks \cup {tsp.other}
         /\ UNCHANGED <<waiting_tasks, running_tasks, pool_err, scheduled_tasks, pool_log>>

\* step(), lines 353-369, with TaskPool.notify_task_ready and
\* notify_task_waiting
StepSuspend(tsp) ==
    LET num_dependencies == count_outstanding_children(tsp.task)
    IN IF Known(tsp.task)
       THEN PoolRaise("AssertionError")
       ELSE /\ IF num_dependencies = 0
               THEN ready_tasks' = ready_tasks \cup {tsp.task} /\ UNCHANGED waiting_tasks
               ELSE /\ waiting_tasks' = WithKey(waiting_tasks, tsp.task, num_dependencies)
                    /\ UNCHANGED ready_tasks
            /\ pool_log' = Logged(tsp, num_dependencies, ready_tasks' \ ready_tasks)
            /\ UNCHANGED <<running_tasks, pool_err, created_tasks, scheduled_tasks>>

\* notify_task_complete(), lines 211-215: the waiting map once a child of
\* parent_task has completed
WaitingDroppedAtOnce(w, parent_task) ==
    IF parent_task \in DOMAIN w THEN WithoutKey(w, parent_task) ELSE w
WaitingAfterComplete(w, parent_task) ==
    IF parent_task \in DOMAIN w
    THEN IF w[parent_task] - 1 = 0
         THEN WithoutKey(w, parent_task)
         ELSE [w EXCEPT ![parent_task] = w[parent_task] - 1]
    ELSE w

\* notify_task_complete(), lines 211-215: whether the parent is notified ready
ReadiedByComplete(w, parent_task) == parent_task \in DOMAIN w /\ w[parent_task] - 1 = 0

\* step(), lines 371-380, with TaskPool.notify_task_complete
StepComplete(tsp) ==
    LET task == tsp.task
        parent_task == tsp.other
        running == running_tasks \ {task}
        waiting == WaitingAfterComplete(waiting_tasks, parent_task)
        readied == ReadiedByComplete(waiting_tasks, parent_task)
        \* notify_task_ready(parent_task) and its assertion
        ready_ok == ~readied \/ ~(parent_task \in ready_tasks \/ parent_task \in DOMAIN waiting)
        ready == IF readied /\ ready_ok THEN ready_tasks \cup {parent_task} ELSE ready_tasks
        ok == ready_ok /\ ~(task \in ready \/ task \in DOMAIN waiting)
    IN /\ running_tasks' = running
       /\ waiting_tasks' = waiting
       /\ ready_tasks' = ready
       /\ pool_err' = IF ok THEN "" ELSE "AssertionError"
       /\ pool_log' = Logged(tsp, 0, ready \ ready_tasks)
       /\ UNCHANGED <<created_tasks, scheduled_tasks>>

\* TaskScheduler.step()
Step ==
    /\ pool_err = ""
    /\ task_scheduling_points # <<>>
    /\ LET tsp == Head(task_scheduling_points)
       IN /\ CASE tsp.mode = TSP_CREATE -> StepCreate(tsp)
               [] tsp.mode = TSP_SUSPEND -> StepSuspend(tsp)
               [] tsp.mode = TSP_COMPLETE -> StepComplete(tsp)
          /\ task_scheduling_points' =
                IF pool_err' = "" THEN SortedByTime(Tail(task_scheduling_points))
                ELSE Tail(task_scheduling_points)
    /\ UNCHANGED <<simvars, drvvars, dbvars>>

\* TaskPool.schedule_new_task(), lines 113-134: a thread takes a task
ScheduleNewTask ==
    /\ pool_err = ""
    /\ \E task \in PoolTasks :
          IF task \in running_tasks \/ task \notin ready_tasks
          THEN PoolRaise("ValueError")
          ELSE /\ ready_tasks' = ready_tasks \ {task}
               /\ scheduled_tasks' = scheduled_tasks \cup {task}
               /\ UNCHANGED <<waiting_tasks, running_tasks, pool_err, created_tasks, pool_log>>
    /\ UNCHANGED <<task_scheduling_points, simvars, drvvars, dbvars>>

\* the scheduling points handled so far and those in the queue
PointsSeen == (Cardinality(created_tasks \ PoolInitial) + Len(pool_log)) + Len(task_scheduling_points)

\* a scheduling point of a task that was scheduled reaches the queue
EnqueueTSP ==
    /\ pool_err = ""
    /\ PointsSeen < MaxTSPs
    /\ \E tsp \in TaskSchedulingPoints :
          /\ tsp.task \in scheduled_tasks
          /\ task_scheduling_points' = Append(task_scheduling_points, tsp)
    /\ UNCHANGED <<ready_tasks, waiting_tasks, running_tasks, pool_err, created_tasks,
                   scheduled_tasks, pool_log, simvars, drvvars, dbvars>>

\* TaskPool.__init__: initial_tasks or set(con.root_tasks())
InitFinite ==
    /\ \E initial_tasks \in {{}, PoolInitial} :
          ready_tasks = IF initial_tasks = {} THEN root_tasks ELSE initial_tasks
    /\ created_tasks = ready_tasks
    /\ scheduled_tasks = {}
    /\ waiting_tasks = <<>>
    /\ running_tasks = {}
    /\ task_scheduling_points = <<>>
    /\ pool_err = ""
    /\ pool_log = <<>>
    /\ SchedulerIdle
    /\ DriverIdle
    /\ PersistenceIdle

NextFinite == Step \/ ScheduleNewTask \/ EnqueueTSP

SpecFinite == InitFinite /\ [][NextFinite]_vars

\* C36: as long as no assertion has tripped, no task is in the ready set and
\* in the waiting map at once, and every count of the waiting map is at
\* least 1.
C36_PoolDisjoint ==
    pool_err = "" =>
        /\ ready_tasks \cap Waiting = {}
        /\ \A t \in Waiting : waiting_tasks[t] >= 1

\* the SUSPEND that placed the task last, and the COMPLETE points of its
\* children handled since
LastSuspend(t) ==
    LET at == {i \in 1..Len(pool_log) : pool_log[i].what = TSP_SUSPEND /\ pool_log[i].task = t}
    IN IF at = {} THEN 0 ELSE CHOOSE i \in at : \A j \in at : j <= i
CompletesSince(t, i) ==
    SelectSeq(SubSeq(pool_log, i + 1, Len(pool_log)),
              LAMBDA x : x.what = TSP_COMPLETE /\ x.other = t)

\* a task waits with a count that a COMPLETE of a child has lowered, beside
\* a ready task
C36_Witness ==
    /\ pool_err = ""
    /\ ready_tasks # {}
    /\ \E t \in Waiting : CompletesSince(t, LastSuspend(t)) # <<>>

\* C37: at a SUSPEND point the number of outstanding dependencies recorded
\* for the task is the number of its children that were created and have not
\* completed, those taken by a thread included, and the task is made ready
\* at once only if that number is 0.
C37_OutstandingChildren ==
    \A i \in 1..Len(pool_log) :
        pool_log[i].what = TSP_SUSPEND =>
            /\ pool_log[i].count = pool_log[i].outstanding
            /\ pool_log[i].task \in pool_log[i].moved => pool_log[i].outstanding = 0

\* C38: a task placed in the waiting map with count n stays there, and out
\* of the ready set, until the n-th COMPLETE point of a child of it is
\* handled; that step moves it to the ready set and removes it from the map.
C38_ReadyAtNthComplete ==
    \A t \in PoolTasks :
        LET i == LastSuspend(t)
            n == IF i = 0 THEN 0 ELSE pool_log[i].count
            done == CompletesSince(t, i)
        IN n >= 1 =>
             /\ \A k \in 1..Len(done) : (t \in done[k].moved) <=> (k = n)
             /\ Len(done) < n =>
                   /\ t \in Waiting /\ waiting_tasks[t] = n - Len(done)
                   /\ t \notin ready_tasks
             /\ Len(done) >= n => t \notin Waiting

\* a task placed with count 2 is ready after the second COMPLETE of a child
C38_Witness ==
    \E t \in PoolTasks :
        LET i == LastSuspend(t)
        IN /\ i # 0 /\ pool_log[i].count = 2
           /\ Len(CompletesSince(t, i)) = 2
           /\ t \in ready_tasks
           /\ pool_err = ""

-----------------------------------------------------------------------------
(* The persistence layer, continued: the buffer and the order of closing *)

\* a writer of the context has been closed
WritersClosed == closed # <<>>

\* C39: the rows committed to the store, batch after batch, followed by the
\* rows still buffered are the rows inserted, each once and in the order of
\* the insert calls; after insert returns the buffer holds fewer than bufsize
\* rows; after close the buffer is empty and every inserted row is committed.
C39_BufferedWriter ==
    \A t \in Tables :
        /\ committed[t] \o buffer[t] = inserted[t]
        /\ \A i, j \in 1..Len(inserted[t]) : i < j => inserted[t][i] # inserted[t][j]
        /\ Len(buffer[t]) < Bufsize
        /\ WritersClosed => buffer[t] = <<>> /\ committed[t] = inserted[t]

C39_Witness ==
    /\ WritersClosed
    /\ \E t \in Tables : Len(committed[t]) > Bufsize /\ committed[t] = inserted[t]

\* the places at which a resource was closed
ClosedAt(thing) == {i \in 1..Len(closed) : closed[i] = thing}

\* C40: once the closing_all context is left, normally or through an
\* exception, each listed resource has been closed exactly once, a resource
\* listed later was closed earlier, and the string-definition writer, listed
\* first in process_trace, was closed last; nothing is closed before that.
C40_ClosedInReverse ==
    context = "closing_all" =>
        LET things == Things("closing_all")
        IN IF caller = "inside"
           THEN closed = <<>>
           ELSE /\ Len(closed) = Len(things)
                /\ \A i \in 1..Len(things) : Cardinality(ClosedAt(things[i])) = 1
                /\ \A i, j \in 1..Len(things) :
                      i < j => \A a \in ClosedAt(things[i]), b \in ClosedAt(things[j]) : b < a
                /\ closed[Len(closed)] = "string_writer"
                /\ \A w \in {"source_writer", "chunk_builder",
                             "task_meta_writer", "task_action_writer"} :
                      \A a \in ClosedAt(w) : a < Len(closed)

C40_Witness ==
    /\ context = "closing_all"
    /\ body = "raised" /\ caller = "raised"
    /\ Len(closed) = 5
    /\ closed[1] = "task_action_writer"

====
